---- MODULE Spec2Model ----
(***************************************************************************)
(* A model of the client-side DOM-to-PDF export of superset-frontend:      *)
(*   - addPageBreaks (pdfUtils.ts, three variants): the page-break         *)
(*     inserter working on a vertical stack of layout units;               *)
(*   - isCanvasBlank (pdfUtils.ts): the blank-page test on RGBA data;      *)
(*   - customDomToPdf: rasterize, slice into pages, assemble, save.        *)
(* Lengths are CSS pixels, integers.  A container is a vertical flow of    *)
(* block children, so a child's top is the sum of the heights before it.   *)
(***************************************************************************)
EXTENDS Integers, Sequences, FiniteSets, TLC

VARIABLES
    \* ---- addPageBreaks ----
    variant,      \* which addPageBreaks of pdfUtils.ts runs
    hasClasses,   \* TRUE: the units carry the classes the selectors look for
    hasGridContent,  \* TRUE: the container has a descendant .grid-content
    contentTop,   \* offset of the unit stack from the top of `container`
    pageHeight,   \* the pageHeight argument
    children,     \* the unit stack with the spacers inserted so far
    elements,     \* the `elements` array of the call: child ids, in order
    i,            \* the cursor into `elements` (0-based, as in the code)
    pc,           \* "idle" | "ready" | "loop" | "done"
    run,          \* "none" | "first" | "second": the call on this container
    runStart,     \* the stack as it was when the current call began
    folded,       \* parity of the spacer pairs inserted but not kept in `children`
    \* ---- isCanvasBlank ----
    ctxState,     \* getContext('2d') / getImageData: "ok" | "null" | "throws"
    imageData,    \* the RGBA pixels getImageData returns
    blankPc,      \* "idle" | "ready" | "returned"
    blankResult,  \* the value isCanvasBlank returned
    \* ---- customDomToPdf ----
    epc,          \* "off" | "idle" | "cloned" | "styled" | "staged" | "broken" |
                  \* "rasterizing" | "slicing" | "finally" | "done"
    overlay,      \* "none" | "attached" | "removed"
    raster,       \* the toCanvas promise: "pending" | "fulfilled" | "rejected"
    canvas,       \* the rasterized bitmap, one pixel per row
    scaledPageHeight,
    page,         \* the loop variable of the slicing loop
    pageAdded,    \* the pageAdded flag
    pdfOps,       \* the calls made on the jsPDF object, in order
    promise,      \* the returned promise: "pending" | "fulfilled" | "rejected"
    reason,       \* what the promise was rejected with
    rasterError,  \* what the toCanvas promise was rejected with
    settleCalls,  \* the calls of resolve and reject made so far, in order
    microtasks,   \* the promise jobs queued and not yet run, in order
    observed,     \* the overlay as the caller's reaction on the promise found it
    skipped,      \* the slices for which getContext('2d') returned null
    pagesFolded,  \* parity of the iterations made with page beyond MaxRows
    bodyCalls,    \* the appendChild / removeChild(overlay) calls on document.body
    idleTurns,    \* parity of the event loop turns made while toCanvas is pending
    \* ---- overlapping calls of customDomToPdf ----
    calls,        \* per call: its position, the state of its promise, the
                  \* overlays in the document when it was entered (beside),
                  \* the calls whose wrapper it selected in or sliced
                  \* (touched), the calls whose overlay it removed (removed)
    attached,     \* the calls whose overlay is a child of document.body
    \* ---- cloneNode and the nodes an export writes to ----
    dom,          \* the nodes: id -> [tag, kids, live, dirty, style]
    original,     \* the nodes as they were before the export began
    clonedRoot,   \* the node cloneNode returned (0: not yet)
    wrapperId,    \* the wrapper built around the clone (0: not yet)
    clonePc,      \* "off" | "ready" | "cloned" | "threw" | "styled" | "staged" |
                  \* "released"
    failing,      \* the element whose fidelity step in cloneNode fails (0: none)
    \* ---- calculatePageHeight ----
    containerWidth,  \* the containerWidth argument, in tenths of a pixel
    margin,          \* the margin argument, in hundredths of a point
    heightPc,        \* "idle" | "ready" | "returned"
    heightResult,    \* the value calculatePageHeight returned
    slice,           \* a page canvas cut with that page height: [w, h, scale]
    placement,       \* the arguments of pdf.addImage for it
    \* ---- the selection of layout units in a nested container ----
    tree,         \* the container: id -> [cls, kids], node 1 is the container
    selVariant,   \* which addPageBreaks selects
    selected,     \* the `elements` array it built
    selPc,        \* "idle" | "ready" | "selected"
    \* ---- the filter history in session storage ----
    storage,      \* sessionStorage: key -> what getItem returns for it
    now,          \* dashboard -> the Date.now() of the last entry stored for it
    numEdits,     \* delete, label and clear calls made so far
    lastCall      \* the call made last: [op, d, id]

breakVars == <<variant, hasClasses, hasGridContent, contentTop, pageHeight, children,
               elements, i, pc, run, runStart, folded>>
blankVars == <<ctxState, imageData, blankPc, blankResult>>
exportVars == <<epc, overlay, raster, canvas, scaledPageHeight, page,
                pageAdded, pdfOps, promise, reason, rasterError, settleCalls,
                microtasks, observed, skipped, pagesFolded,
                bodyCalls, idleTurns>>
callVars == <<calls, attached>>
cloneVars == <<dom, original, clonedRoot, wrapperId, clonePc, failing>>
heightVars == <<containerWidth, margin, heightPc, heightResult, slice,
                placement>>
selectVars == <<tree, selVariant, selected, selPc>>
historyVars == <<storage, now, numEdits, lastCall>>
restVars == <<callVars, cloneVars, heightVars, selectVars, historyVars>>

vars == <<breakVars, blankVars, exportVars, restVars>>

(***************************************************************************)
(* Bounds of the model.                                                    *)
(***************************************************************************)
MaxUnits == 3      \* layout units in the container
MaxPushes == 4     \* spacer pairs kept in `children` before whole pages are folded

\* unit heights: not rendered, below the 10px threshold, ordinary, within
\* 32px of a page, taller than a page
Heights == {0, 5, 150, 200, 600, 680, 750}
PageHeights == {700}
\* height of the content above the unit container inside the cloned element
Aboves == {150}

(***************************************************************************)
(* Program constants.                                                      *)
(***************************************************************************)
TOP_SPACER == 32       \* topSpacer.style.height = '32px'
TopPadding == 32       \* addPageBreaks(wrapper, pageHeight, 32)
BOTTOM_BUFFER == 30
MIN_HEIGHT == 10       \* if (height < 10)
MIN_CUT == 50          \* amountOnNextPage > 50

Variants == {"single", "buffered", "strict"}

FILL_CLASS == "custom-pdf-page-break-spacer"
PAD_CLASS == "custom-pdf-page-padding-top"

\* two of the classes the cursor variants select, in the order of `selectors`
UnitClasses == {"grid-row", "dashboard-component-header"}

\* 0: addPageBreaks called on a container whose units start at its top;
\* TOP_SPACER + a: called by customDomToPdf on the wrapper
ContentTops == {0} \cup {TOP_SPACER + a : a \in Aboves}

(***************************************************************************)
(* Layout of a vertical stack of block children [id, cls, h].              *)
(***************************************************************************)
RECURSIVE SumHeights(_, _)
SumHeights(ch, n) == IF n = 0 THEN 0 ELSE SumHeights(ch, n - 1) + ch[n].h

IndexOf(ch, id) == CHOOSE k \in 1..Len(ch) : ch[k].id = id

\* offset of child k from the top of the stack
OffsetOf(ch, k) == SumHeights(ch, k - 1)

\* el.className.includes('custom-pdf-page-break-spacer') || ...padding-top
IsSpacer(c) == c.cls \in {FILL_CLASS, PAD_CLASS}

RECURSIVE CountFill(_, _)
CountFill(ch, n) ==
    IF n = 0 THEN 0
    ELSE CountFill(ch, n - 1) + (IF ch[n].cls = FILL_CLASS THEN 1 ELSE 0)

\* number of spacer elements (of either class) among the first n children
RECURSIVE CountSpacers(_, _)
CountSpacers(ch, n) ==
    IF n = 0 THEN 0
    ELSE CountSpacers(ch, n - 1) + (IF IsSpacer(ch[n]) THEN 1 ELSE 0)

\* only the fill spacer is inserted, the top padding of the new page is lost
InsertSpacers_NoPadding(ch, k, fillHeight, padHeight) ==
    SubSeq(ch, 1, k - 1)
      \o << [id |-> Len(ch) + 1, cls |-> FILL_CLASS, h |-> fillHeight] >>
      \o SubSeq(ch, k, Len(ch))

\* the padding spacer is inserted first and ends above the fill spacer
InsertSpacers_PaddingFirst(ch, k, fillHeight, padHeight) ==
    SubSeq(ch, 1, k - 1)
      \o << [id |-> Len(ch) + 2, cls |-> PAD_CLASS, h |-> padHeight],
            [id |-> Len(ch) + 1, cls |-> FILL_CLASS, h |-> fillHeight] >>
      \o SubSeq(ch, k, Len(ch))

\* el.parentNode.insertBefore(pageBreak, el); insertBefore(pagePaddingTop, el)
InsertSpacers(ch, k, fillHeight, padHeight) ==
    SubSeq(ch, 1, k - 1)
      \o << [id |-> Len(ch) + 1, cls |-> FILL_CLASS, h |-> fillHeight],
            [id |-> Len(ch) + 2, cls |-> PAD_CLASS, h |-> padHeight] >>
      \o SubSeq(ch, k, Len(ch))

(***************************************************************************)
(* Selection of the layout units.                                          *)
(***************************************************************************)
\* ids of the children that satisfy a class test, in document order
RECURSIVE IdsWithClass(_, _, _)
IdsWithClass(ch, k, classes) ==
    IF k > Len(ch) THEN << >>
    ELSE (IF ch[k].cls \in classes THEN << ch[k].id >> ELSE << >>)
         \o IdsWithClass(ch, k + 1, classes)

RECURSIVE IdsWithoutClass(_, _, _)
IdsWithoutClass(ch, k, classes) ==
    IF k > Len(ch) THEN << >>
    ELSE (IF ch[k].cls \notin classes THEN << ch[k].id >> ELSE << >>)
         \o IdsWithoutClass(ch, k + 1, classes)

\* single-pass variant: querySelectorAll of one selector list (document
\* order); if nothing matches, Array.from(container.children)
SelectSingle(ch) ==
    LET found == IdsWithClass(ch, 1, UnitClasses)
    IN IF Len(found) = 0 THEN IdsWithoutClass(ch, 1, {}) ELSE found

\* cursor variants: selectors.forEach(querySelectorAll), so the matches of
\* the first selector come first; if nothing matches, the direct children
\* of .grid-content that are not spacers
SelectCursor(ch) ==
    LET found == IdsWithClass(ch, 1, {"grid-row"})
                 \o IdsWithClass(ch, 1, {"dashboard-component-header"})
    IN IF Len(found) = 0 THEN IdsWithoutClass(ch, 1, {FILL_CLASS, PAD_CLASS})
       ELSE found

SelectElements(v, ch) == IF v = "single" THEN SelectSingle(ch) ELSE SelectCursor(ch)

(***************************************************************************)
(* Measurement and the push decision of each variant.                      *)
(***************************************************************************)
\* rect.top - containerRect.top (single pass: against the container that
\* was passed in) or rect.top - currentGridContentRect.top (cursor variants)
RelativeTop(v, cTop, ch, id) ==
    (IF v = "single" THEN cTop ELSE 0) + OffsetOf(ch, IndexOf(ch, id))

StartPage(top, pH) == top \div pH
EndPage(top, h, pH) == (top + h) \div pH
\* the space is measured against the first page only
RemainingSpaceOnPage_FirstPage(top, pH) == pH - top

RemainingSpaceOnPage(top, pH) == pH - (top % pH)

\* startPage !== endPage && height < pageHeight
PushSingle(top, h, pH) ==
    /\ StartPage(top, pH) # EndPage(top, h, pH)
    /\ h < pH

IsNearPageBottom(top, h, pH) ==
    RemainingSpaceOnPage(top, pH) < h + BOTTOM_BUFFER

\* the gate compares against two pages instead of one
IsTallerThanPage_TwoPages(h, pH) == h > 2 * pH

\* const isTallerThanPage = height > pageHeight
IsTallerThanPage(h, pH) == h > pH

\* (startPage !== endPage || isNearPageBottom) && !isTallerThanPage
PushBuffered(top, h, pH) ==
    /\ (StartPage(top, pH) # EndPage(top, h, pH) \/ IsNearPageBottom(top, h, pH))
    /\ ~IsTallerThanPage(h, pH)

\* height > pageHeight * 0.9
IsTooLargeToFit(h, pH) == 10 * h > 9 * pH

\* amountOnNextPage = height - remainingSpaceOnPage; > 50
IsSignificantlyCut(top, h, pH) == h - RemainingSpaceOnPage(top, pH) > MIN_CUT

\* startPage !== endPage && !isTooLargeToFit && isSignificantlyCut
PushStrict(top, h, pH) ==
    /\ StartPage(top, pH) # EndPage(top, h, pH)
    /\ ~IsTooLargeToFit(h, pH)
    /\ IsSignificantlyCut(top, h, pH)

ShouldPush(v, top, h, pH) ==
    CASE v = "single" -> PushSingle(top, h, pH)
      [] v = "buffered" -> PushBuffered(top, h, pH)
      [] OTHER -> PushStrict(top, h, pH)

\* the three `continue`s at the head of the cursor loop: a spacer, an
\* element that is not rendered (offsetHeight === 0), a height below 10
IsSkipped(v, c) ==
    /\ v # "single"
    /\ (IsSpacer(c) \/ c.h = 0 \/ c.h < MIN_HEIGHT)

(***************************************************************************)
(* addPageBreaks as a state machine: one action per loop iteration.        *)
(***************************************************************************)
\* the parts of the program a specification does not exercise
IdleBreaks ==
    /\ variant = "single" /\ hasClasses = FALSE /\ contentTop = 0
    /\ hasGridContent = TRUE
    /\ pageHeight = 1 /\ children = << >> /\ elements = << >> /\ i = 0
    /\ pc = "idle" /\ run = "none" /\ runStart = << >> /\ folded = 0

IdleBlank ==
    /\ ctxState = "ok" /\ imageData = << >> /\ blankPc = "idle"
    /\ blankResult = FALSE

IdleExport ==
    /\ epc = "off" /\ overlay = "none" /\ raster = "pending" /\ canvas = << >>
    /\ scaledPageHeight = 1 /\ page = 0 /\ pageAdded = FALSE /\ pdfOps = << >>
    /\ promise = "pending" /\ reason = "none"
    /\ rasterError = "none" /\ settleCalls = << >> /\ microtasks = << >>
    /\ observed = "unobserved" /\ skipped = {} /\ pagesFolded = 0
    /\ bodyCalls = << >> /\ idleTurns = 0

IdleCalls == calls = << >> /\ attached = {}

IdleClone ==
    /\ dom = << >> /\ original = << >> /\ clonedRoot = 0 /\ wrapperId = 0
    /\ clonePc = "off" /\ failing = 0

IdleHeight ==
    /\ containerWidth = 0 /\ margin = 0 /\ heightPc = "idle"
    /\ heightResult = 0 /\ slice = << >> /\ placement = << >>

IdleSelect ==
    /\ tree = << >> /\ selVariant = "single" /\ selected = << >>
    /\ selPc = "idle"

NoCall == [op |-> "none", d |-> 0, id |-> 0]

IdleHistory ==
    /\ storage = << >> /\ now = << >> /\ numEdits = 0 /\ lastCall = NoCall

IdleRest ==
    IdleCalls /\ IdleClone /\ IdleHeight /\ IdleSelect /\ IdleHistory

Stacks ==
    UNION { [1..n -> Heights \X UnitClasses] : n \in 1..MaxUnits }

MakeStack(f, classed) ==
    [k \in DOMAIN f |->
        [id |-> k, cls |-> (IF classed THEN f[k][2] ELSE "none"), h |-> f[k][1]]]

\* the element at the cursor and its fresh measurement
Cur == children[IndexOf(children, elements[i + 1])]
CurTop == RelativeTop(variant, contentTop, children, elements[i + 1])

InitBreaks ==
    /\ variant \in Variants
    /\ hasClasses \in BOOLEAN
    \* the single-pass variant does not look for .grid-content
    /\ hasGridContent \in BOOLEAN
    /\ variant = "single" => hasGridContent
    \* without .grid-content nothing is selected or measured
    /\ ~hasGridContent => (~hasClasses /\ contentTop = 0)
    /\ contentTop \in ContentTops
    /\ pageHeight \in PageHeights
    /\ \E f \in Stacks :
          \* the class only orders the selection of the cursor variants
          /\ (variant = "single" \/ ~hasClasses) =>
                 \A k \in DOMAIN f : f[k][2] = "grid-row"
          /\ children = MakeStack(f, hasClasses)
    \* container.children are the units only when they start at its top
    /\ (variant = "single" /\ ~hasClasses) => contentTop = 0
    /\ elements = << >>
    /\ i = 0
    /\ pc = "ready"
    /\ run = "none"
    /\ runStart = << >>
    /\ folded = 0
    /\ IdleBlank
    /\ IdleExport
    /\ IdleRest

\* without the test of gridContent the container itself is searched
ReturnNoGrid_SearchesContainer ==
    /\ variant # "single" /\ ~hasGridContent
    /\ \/ pc = "ready" /\ run = "none" /\ run' = "first"
       \/ pc = "done" /\ run = "first" /\ run' = "second"
    /\ elements' = SelectElements(variant, children)
    /\ i' = 0
    /\ pc' = "loop"
    /\ runStart' = children
    /\ UNCHANGED <<variant, hasClasses, hasGridContent, contentTop, pageHeight,
                   children>>
    /\ UNCHANGED <<folded, blankVars, exportVars, restVars>>

\* cursor variants: if (!gridContent) return
ReturnNoGrid ==
    /\ variant # "single" /\ ~hasGridContent
    /\ \/ pc = "ready" /\ run = "none" /\ run' = "first"
       \/ pc = "done" /\ run = "first" /\ run' = "second"
    /\ elements' = << >>
    /\ i' = 0
    /\ pc' = "done"
    /\ runStart' = children
    /\ UNCHANGED <<variant, hasClasses, hasGridContent, contentTop, pageHeight,
                   children>>
    /\ UNCHANGED <<folded, blankVars, exportVars, restVars>>

\* entry of addPageBreaks: the selection, let i = 0
Call ==
    /\ variant = "single" \/ hasGridContent
    /\ \/ pc = "ready" /\ run = "none" /\ run' = "first"
       \/ pc = "done" /\ run = "first" /\ run' = "second"
    /\ elements' = SelectElements(variant, children)
    /\ i' = 0
    /\ pc' = "loop"
    /\ runStart' = children
    /\ UNCHANGED <<variant, hasClasses, hasGridContent, contentTop, pageHeight, children>>
    /\ UNCHANGED <<folded, blankVars, exportVars, restVars>>

\* i += 1; continue
Skip ==
    /\ pc = "loop"
    /\ i < Len(elements)
    /\ IsSkipped(variant, Cur)
    /\ i' = i + 1
    /\ UNCHANGED <<variant, hasClasses, hasGridContent, contentTop, pageHeight, children,
                   elements, pc, run, runStart>>
    /\ UNCHANGED <<folded, blankVars, exportVars, restVars>>

\* A cursor variant pushes a unit that already starts topPadding below a
\* page start: the fill spacer (pageHeight - topPadding) and the padding
\* spacer insert exactly one page, so the unit and everything below it keep
\* their offsets within the page and the same step repeats.
InsertsWholePage ==
    /\ variant # "single"
    /\ RemainingSpaceOnPage(CurTop, pageHeight) + TopPadding = pageHeight

\* the two insertBefore calls; the cursor variants `continue` without
\* incrementing i, forEach moves on
Push ==
    /\ pc = "loop"
    /\ i < Len(elements)
    /\ ~IsSkipped(variant, Cur)
    /\ ShouldPush(variant, CurTop, Cur.h, pageHeight)
    /\ InsertsWholePage => CountFill(children, Len(children)) < MaxPushes
    /\ children' = InsertSpacers(children, IndexOf(children, elements[i + 1]),
                                 RemainingSpaceOnPage(CurTop, pageHeight),
                                 TopPadding)
    /\ i' = IF variant = "single" THEN i + 1 ELSE i
    /\ UNCHANGED <<variant, hasClasses, hasGridContent, contentTop, pageHeight, elements,
                   pc, run, runStart>>
    /\ UNCHANGED <<folded, blankVars, exportVars, restVars>>

\* the same two insertBefore calls once MaxPushes pairs are kept: the page
\* they insert is not added to `children`, which from here on is the
\* container up to whole pages of spacers in front of the unit at the cursor
PushWholePage ==
    /\ pc = "loop"
    /\ i < Len(elements)
    /\ ~IsSkipped(variant, Cur)
    /\ ShouldPush(variant, CurTop, Cur.h, pageHeight)
    /\ InsertsWholePage
    /\ CountFill(children, Len(children)) >= MaxPushes
    /\ folded' = 1 - folded
    /\ UNCHANGED <<variant, hasClasses, hasGridContent, contentTop, pageHeight, children,
                   elements, i, pc, run, runStart>>
    /\ UNCHANGED <<blankVars, exportVars, restVars>>

\* no push is warranted: i += 1
Advance ==
    /\ pc = "loop"
    /\ i < Len(elements)
    /\ ~IsSkipped(variant, Cur)
    /\ ~ShouldPush(variant, CurTop, Cur.h, pageHeight)
    /\ i' = i + 1
    /\ UNCHANGED <<variant, hasClasses, hasGridContent, contentTop, pageHeight, children,
                   elements, pc, run, runStart>>
    /\ UNCHANGED <<folded, blankVars, exportVars, restVars>>

\* while (i < elements.length) fails: addPageBreaks returns
Return ==
    /\ pc = "loop"
    /\ i >= Len(elements)
    /\ pc' = "done"
    /\ UNCHANGED <<variant, hasClasses, hasGridContent, contentTop, pageHeight, children,
                   elements, i, run, runStart>>
    /\ UNCHANGED <<folded, blankVars, exportVars, restVars>>

Next ==
    \/ ReturnNoGrid \/ Call \/ Skip \/ Push \/ PushWholePage \/ Advance
    \/ Return

Spec == InitBreaks /\ [][Next]_vars

\* the loop is never suspended: a call that can take a step takes it
FairSpec == Spec /\ WF_vars(Next)

(***************************************************************************)
(* Properties of addPageBreaks.                                            *)
(***************************************************************************)
\* the selected elements that are layout units (not spacers)
SelectedUnits ==
    { id \in { elements[k] : k \in 1..Len(elements) } :
          ~IsSpacer(children[IndexOf(children, id)]) }

HeightOf(id) == children[IndexOf(children, id)].h

\* top of a child against the reference container of the running variant
TopOf(id) == RelativeTop(variant, contentTop, children, id)

\* top of a child against the top of the container passed to addPageBreaks
\* (in an export: the rasterized wrapper)
WrapperTopOf(id) == contentTop + OffsetOf(children, IndexOf(children, id))

SamePage(id) ==
    StartPage(TopOf(id), pageHeight) = EndPage(TopOf(id), HeightOf(id), pageHeight)

\* yOffset = page * scaledPageHeight: the row at which slice `page` starts
SliceOffset(pg, sliceHeight) == pg * sliceHeight

\* the cut rows of the splitter that fall inside a wrapper of this height
CutRows(total) ==
    { SliceOffset(k, pageHeight) : k \in 1..(total \div pageHeight + 1) }

\* wrapper.scrollHeight: top spacer and content above the units, the unit
\* stack, and the bottom spacer (32px like the top one)
WrapperHeight == contentTop + SumHeights(children, Len(children)) + TOP_SPACER

\* the elements are visited from top to bottom
InDocumentOrder ==
    \A a, b \in 1..Len(elements) :
        a < b => IndexOf(children, elements[a]) < IndexOf(children, elements[b])

\* C1: after addPageBreaks returns, every selected unit shorter than
\* pageHeight has its top and its bottom in the same page index.
C1_NoStraddle ==
    pc = "done" =>
        \A id \in SelectedUnits : HeightOf(id) < pageHeight => SamePage(id)

\* C2: in an export (the unit container lies below the 32px top spacer of
\* the wrapper), no cut row of the splitter lies strictly inside a selected
\* unit that is not taller than a page.
C2_CutsAvoided ==
    (pc = "done" /\ contentTop >= TOP_SPACER) =>
        \A id \in SelectedUnits :
            HeightOf(id) <= pageHeight =>
                \A row \in CutRows(WrapperHeight) :
                    ~(WrapperTopOf(id) < row /\ row < WrapperTopOf(id) + HeightOf(id))

\* C3: addPageBreaks terminates: the cursor passes the end of the unit
\* sequence after finitely many spacer insertions.
C3_Terminates == <>(pc = "done")

\* C4: processing a unit taller than pageHeight inserts nothing and
\* advances the cursor.
C4_TallNeverPushed ==
    [][ (pc = "loop" /\ i < Len(elements) /\ Cur.h > pageHeight)
            => (children' = children /\ i' = i + 1) ]_vars

\* a unit taller than a page that straddles a boundary was passed by the
\* cursor and has no spacer in front of it
C4_Witness ==
    /\ pc = "done"
    /\ \E k \in 1..Len(children) :
          /\ ~IsSpacer(children[k])
          /\ children[k].id \in SelectedUnits
          /\ children[k].h > pageHeight
          /\ ~SamePage(children[k].id)
          /\ (k = 1 \/ ~IsSpacer(children[k - 1]))

\* C5: a second run on the container a first run produced inserts no
\* additional spacer.
C5_Idempotent ==
    run = "second" =>
        CountSpacers(children, Len(children)) = CountSpacers(runStart, Len(runStart))

\* the units' heights, top to bottom
RECURSIVE UnitHeights(_, _)
UnitHeights(ch, k) ==
    IF k > Len(ch) THEN << >>
    ELSE (IF IsSpacer(ch[k]) THEN << >> ELSE << ch[k].h >>) \o UnitHeights(ch, k + 1)

\* what the container holds, top to bottom
Shape(ch) ==
    [k \in 1..Len(ch) |->
        << (IF IsSpacer(ch[k]) THEN ch[k].cls ELSE "unit"), OffsetOf(ch, k),
           OffsetOf(ch, k) + ch[k].h >>]

\* three units of 200, 600 and 150px starting at the top of the reference
\* container, pageHeight 700, first call
Scenario ==
    /\ UnitHeights(children, 1) = <<200, 600, 150>>
    /\ pageHeight = 700
    /\ variant = "single" => contentTop = 0
    /\ hasGridContent
    /\ run = "first"
    /\ pc = "done"

PassedUnits == { elements[k] : k \in 1..i }

\* C23: the cursor of the cursor-loop addPageBreaks goes through the units
\* from top to bottom, so the spacers inserted for the unit at the cursor
\* never move a unit the cursor has already passed.
C23_PassedNeverShifted ==
    [][(variant # "single" /\ pc = "loop" /\ children' # children) =>
          \A id \in PassedUnits :
              OffsetOf(children', IndexOf(children', id))
                 = OffsetOf(children, IndexOf(children, id))]_vars

\* the number of fill/padding pairs that directly precede child k
RECURSIVE PairsBefore(_, _)
PairsBefore(ch, k) ==
    IF k >= 3 /\ ch[k - 2].cls = FILL_CLASS /\ ch[k - 1].cls = PAD_CLASS
    THEN 1 + PairsBefore(ch, k - 2)
    ELSE 0

\* C24: in a run of addPageBreaks with topPadding = 32 on a container
\* without spacers, every layout unit receives at most one pair of a fill
\* spacer and a padding spacer.
C24_AtMostOnePair ==
    run = "first" =>
        \A k \in 1..Len(children) :
            ~IsSpacer(children[k]) => PairsBefore(children, k) <= 1

\* C25: whenever addPageBreaks changes the container, the element at the
\* cursor gets a fill spacer and then a padding spacer of height topPadding
\* as its two preceding siblings, the container holds as many fill spacers
\* as padding spacers, and the other children are what they were, in the
\* same order.
C25_AdjacentPair ==
    [][children' # children =>
          LET k == IndexOf(children', elements[i + 1])
          IN /\ k >= 3
             /\ children'[k - 2].cls = FILL_CLASS
             /\ children'[k - 1].cls = PAD_CLASS
             /\ children'[k - 1].h = TopPadding
             /\ 2 * CountFill(children', Len(children'))
                    = CountSpacers(children', Len(children'))
             /\ SubSeq(children', 1, k - 3)
                    \o SubSeq(children', k, Len(children')) = children]_vars

\* a call has returned with a pair in front of a unit that has a unit
\* above and a unit below it
C25_Witness ==
    /\ pc = "done"
    /\ \E k \in 4..(Len(children) - 1) :
          /\ ~IsSpacer(children[k]) /\ ~IsSpacer(children[k + 1])
          /\ ~IsSpacer(children[k - 3])
          /\ PairsBefore(children, k) = 1
          /\ children[k - 1].h = TopPadding

\* C26: the fill spacer of a push has height
\* pageHeight - (relativeTop mod pageHeight), which is in (0, pageHeight],
\* and the pushed unit then starts topPadding below a page start.
C26_FillToNextPage ==
    [][children' # children =>
          LET id == elements[i + 1]
              top == RelativeTop(variant, contentTop, children, id)
              newTop == RelativeTop(variant, contentTop, children', id)
              fill == children'[IndexOf(children', id) - 2].h
          IN /\ fill = pageHeight - (top % pageHeight)
             /\ 0 < fill /\ fill <= pageHeight
             /\ newTop = top + fill + TopPadding
             /\ newTop % pageHeight = TopPadding % pageHeight]_vars

\* a unit beyond the first page was pushed by less than a page
C26_Witness ==
    /\ pc = "done"
    /\ \E k \in 3..Len(children) :
          /\ ~IsSpacer(children[k])
          /\ PairsBefore(children, k) = 1
          /\ children[k - 2].h < pageHeight
          /\ OffsetOf(children, k - 2) > pageHeight
          /\ TopOf(children[k].id) % pageHeight = TopPadding

\* C27: a cursor-loop addPageBreaks called on a container without a
\* .grid-content descendant selects nothing, inserts no spacer and leaves
\* the container as it was.
C27_NoGridNoChange ==
    (variant # "single" /\ ~hasGridContent) =>
        /\ elements = << >>
        /\ pc # "loop"
        /\ CountSpacers(children, Len(children)) = 0
        /\ run # "none" => children = runStart

\* the call has returned and a unit shorter than a page still straddles
C27_Witness ==
    /\ variant # "single" /\ ~hasGridContent
    /\ pc = "done"
    /\ children = runStart
    /\ \E k \in 1..Len(children) :
          /\ children[k].h >= MIN_HEIGHT
          /\ children[k].h < pageHeight
          /\ StartPage(WrapperTopOf(children[k].id), pageHeight)
                 # EndPage(WrapperTopOf(children[k].id), children[k].h, pageHeight)

(***************************************************************************)
(* isCanvasBlank.                                                          *)
(***************************************************************************)
MaxPixels == 2     \* pixels of the bitmap handed to isCanvasBlank

Pixels == [r : {0, 255}, g : {0, 255}, b : {0, 255}, a : {0, 128, 255}]

Bitmaps == UNION { [1..n -> Pixels] : n \in 0..MaxPixels }

\* the colour tests dropped: only the alpha channel is looked at
PixelHasContent_AlphaOnly(px) == px.a # 0

\* data[i] !== 255 || data[i+1] !== 255 || data[i+2] !== 255 || data[i+3] !== 0
PixelHasContent(px) == px.r # 255 \/ px.g # 255 \/ px.b # 255 \/ px.a # 0

\* for (let i = 0; i < data.length; i += 4): false at the first pixel with
\* content, true when the loop ends
RECURSIVE ScanBlank(_, _)
ScanBlank(data, k) ==
    IF k > Len(data) THEN TRUE
    ELSE IF PixelHasContent(data[k]) THEN FALSE
    ELSE ScanBlank(data, k + 1)

\* if (!ctx) return true; a throw of getImageData is caught: return false
IsCanvasBlank(ctx, data) ==
    CASE ctx = "null" -> TRUE
      [] ctx = "throws" -> FALSE
      [] OTHER -> ScanBlank(data, 1)

InitBlank ==
    /\ ctxState \in {"ok", "null", "throws"}
    /\ imageData \in Bitmaps
    /\ blankPc = "ready"
    /\ blankResult = FALSE
    /\ IdleBreaks
    /\ IdleExport
    /\ IdleRest

CheckBlank ==
    /\ blankPc = "ready"
    /\ blankResult' = IsCanvasBlank(ctxState, imageData)
    /\ blankPc' = "returned"
    /\ UNCHANGED <<ctxState, imageData>>
    /\ UNCHANGED <<breakVars, exportVars, restVars>>

NextBlank == CheckBlank

SpecBlank == InitBlank /\ [][NextBlank]_vars

OpaqueWhite(px) == px.r = 255 /\ px.g = 255 /\ px.b = 255 /\ px.a = 255
Transparent(px) == px.a = 0
NonWhite(px) == px.r # 255 \/ px.g # 255 \/ px.b # 255

\* C7: isCanvasBlank returns true iff every pixel is opaque white or fully
\* transparent.
C7_BlankIff ==
    (blankPc = "returned" /\ ctxState = "ok") =>
        (blankResult <=>
            \A k \in 1..Len(imageData) :
                OpaqueWhite(imageData[k]) \/ Transparent(imageData[k]))

MaxRows == 3       \* rows of the rasterized bitmap

\* pageHeight * scale; 0 when the wrapper was measured 0px wide
ScaledPageHeights == {0, 1, 2}

\* the rows a rasterized wrapper is made of: white, black, transparent
CanvasPixels ==
    { [r |-> 255, g |-> 255, b |-> 255, a |-> 255],
      [r |-> 0, g |-> 0, b |-> 0, a |-> 255],
      [r |-> 0, g |-> 0, b |-> 0, a |-> 0] }

Canvases == UNION { [1..n -> CanvasPixels] : n \in 0..MaxRows }

\* the quotient is rounded down: the rows of a last partial page are lost
NumPages_Floor(fullHeight, sph) == fullHeight \div sph

\* Math.ceil(fullHeight / scaledPageHeight), for scaledPageHeight > 0
NumPages(fullHeight, sph) == (fullHeight + sph - 1) \div sph

\* page < numPages.  With scaledPageHeight = 0 the quotient is NaN for
\* fullHeight = 0 (the comparison is false) and Infinity otherwise (true)
PageInRange(pg, fullHeight, sph) ==
    IF sph = 0 THEN fullHeight > 0 ELSE pg < NumPages(fullHeight, sph)

\* renderHeight: scaledPageHeight, or what is left on the last page; no
\* page is the last one when numPages is Infinity
RenderHeight(pg, fullHeight, sph) ==
    IF sph > 0 /\ pg = NumPages(fullHeight, sph) - 1
    THEN fullHeight - SliceOffset(pg, sph)
    ELSE sph

\* source-over drawing of a pixel on the opaque white fillRect
OverWhite(px) ==
    [r |-> (px.r * px.a + 255 * (255 - px.a)) \div 255,
     g |-> (px.g * px.a + 255 * (255 - px.a)) \div 255,
     b |-> (px.b * px.a + 255 * (255 - px.a)) \div 255,
     a |-> 255]

\* pageCanvas after fillRect('#ffffff') and drawImage of the strip
PageCanvas(cv, pg, sph) ==
    [k \in 1..RenderHeight(pg, Len(cv), sph) |->
        OverWhite(cv[SliceOffset(pg, sph) + k])]

\* isCanvasBlank(pageCanvas): getImageData throws on a canvas of height 0
SliceIsBlank(cv, pg, sph) ==
    IsCanvasBlank(IF RenderHeight(pg, Len(cv), sph) = 0 THEN "throws" ELSE "ok",
                  PageCanvas(cv, pg, sph))

\* a page is added in front of every accepted slice, the first included
AcceptOps_AlwaysAddPage(added, pg) ==
    << <<"addPage", pg>>, <<"addImage", pg>> >>

\* the pdf calls of an accepted slice: addPage unless it is the first
AcceptOps(added, pg) ==
    (IF added THEN << <<"addPage", pg>> >> ELSE << >>) \o << <<"addImage", pg>> >>

\* the errors the rasterization collaborator can reject with
RasterErrors == {"NetworkError", "SecurityError"}

InitExport ==
    /\ epc = "idle"
    /\ overlay = "none"
    /\ raster = "pending"
    /\ canvas = << >>
    /\ scaledPageHeight \in ScaledPageHeights
    /\ page = 0
    /\ pageAdded = FALSE
    /\ pdfOps = << >>
    /\ promise = "pending"
    /\ reason = "none"
    /\ rasterError = "none"
    /\ settleCalls = << >>
    /\ microtasks = << >>
    /\ observed = "unobserved"
    /\ skipped = {}
    /\ pagesFolded = 0
    /\ bodyCalls = << >>
    /\ idleTurns = 0
    /\ IdleBreaks
    /\ IdleBlank
    /\ IdleRest

\* the synchronous part, step by step.  The options are read, the overlay
\* element is created (not yet in the document) and elementToPrint is cloned
StartExport ==
    /\ epc = "idle"
    /\ epc' = "cloned"
    /\ UNCHANGED overlay
    /\ UNCHANGED <<raster, canvas, scaledPageHeight, page, pageAdded, pdfOps,
                   promise, reason, rasterError, settleCalls, microtasks,
                   observed>>
    /\ UNCHANGED <<skipped, pagesFolded, bodyCalls, idleTurns, breakVars,
                   blankVars, restVars>>

\* the inline styles of the clone are written
StyleExport ==
    /\ epc = "cloned"
    /\ epc' = "styled"
    /\ UNCHANGED overlay
    /\ UNCHANGED <<raster, canvas, scaledPageHeight, page, pageAdded, pdfOps,
                   promise, reason, rasterError, settleCalls, microtasks,
                   observed>>
    /\ UNCHANGED <<skipped, pagesFolded, bodyCalls, idleTurns, breakVars,
                   blankVars, restVars>>

\* the wrapper is appended to the overlay without the overlay being put
\* into the document
StageExport_Detached ==
    /\ epc = "styled"
    /\ epc' = "staged"
    /\ UNCHANGED overlay
    /\ UNCHANGED <<raster, canvas, scaledPageHeight, page, pageAdded, pdfOps,
                   promise, reason, rasterError, settleCalls, microtasks,
                   observed>>
    /\ UNCHANGED <<skipped, pagesFolded, bodyCalls, idleTurns, breakVars,
                   blankVars, restVars>>

\* the wrapper with the spacers and the clone is built and appended to the
\* overlay; document.body.appendChild(overlay)
StageExport ==
    /\ epc = "styled"
    /\ epc' = "staged"
    /\ overlay' = "attached"
    /\ bodyCalls' = Append(bodyCalls, "appendChild")
    /\ UNCHANGED <<raster, canvas, scaledPageHeight, page, pageAdded, pdfOps,
                   promise, reason, rasterError, settleCalls, microtasks,
                   observed>>
    /\ UNCHANGED <<skipped, pagesFolded, idleTurns, breakVars, blankVars,
                   restVars>>

\* wrapper.getBoundingClientRect().width, calculatePageHeight,
\* addPageBreaks(wrapper, pageHeight, 32)
BreakExport ==
    /\ epc = "staged"
    /\ epc' = "broken"
    /\ UNCHANGED overlay
    /\ UNCHANGED <<raster, canvas, scaledPageHeight, page, pageAdded, pdfOps,
                   promise, reason, rasterError, settleCalls, microtasks,
                   observed>>
    /\ UNCHANGED <<skipped, pagesFolded, bodyCalls, idleTurns, breakVars,
                   blankVars, restVars>>

\* domToImage.toCanvas(wrapper, ...) is called and the callbacks are chained
Rasterize ==
    /\ epc = "broken"
    /\ epc' = "rasterizing"
    /\ UNCHANGED overlay
    /\ UNCHANGED <<raster, canvas, scaledPageHeight, page, pageAdded, pdfOps,
                   promise, reason, rasterError, settleCalls, microtasks,
                   observed>>
    /\ UNCHANGED <<skipped, pagesFolded, bodyCalls, idleTurns, breakVars,
                   blankVars, restVars>>

\* the steps of the synchronous part
SyncSteps == {"idle", "cloned", "styled", "staged", "broken"}

\* an exception in the synchronous part: the outer catch removes the
\* overlay if it was appended and rejects; the caller's reaction is queued
\* once the caller has the promise
SyncThrow ==
    /\ epc \in SyncSteps
    /\ overlay' = IF overlay = "attached" THEN "removed" ELSE overlay
    /\ bodyCalls' = IF overlay = "attached"
                    THEN Append(bodyCalls, "removeChild") ELSE bodyCalls
    /\ promise' = "rejected"
    /\ reason' = "syncError"
    /\ settleCalls' = Append(settleCalls, "reject")
    /\ microtasks' = << "callerReaction" >>
    /\ epc' = "done"
    /\ UNCHANGED <<raster, canvas, scaledPageHeight, page, pageAdded, pdfOps,
                   rasterError, observed>>
    /\ UNCHANGED <<skipped, pagesFolded, idleTurns, breakVars, blankVars,
                   restVars>>

\* toCanvas fulfils: the then callback starts, new jsPDF, pageAdded = false
RasterFulfil ==
    /\ epc = "rasterizing"
    /\ raster' = "fulfilled"
    /\ canvas' \in Canvases
    /\ page' = 0
    /\ pageAdded' = FALSE
    /\ epc' = "slicing"
    /\ UNCHANGED <<overlay, scaledPageHeight, pdfOps, promise, reason,
                   rasterError, settleCalls, microtasks, observed>>
    /\ UNCHANGED <<skipped, pagesFolded, bodyCalls, idleTurns, breakVars,
                   blankVars, restVars>>

\* the rejection reaches the caller wrapped in a new error
RasterReject_Wrapped ==
    /\ epc = "rasterizing"
    /\ raster' = "rejected"
    /\ \E e \in RasterErrors : rasterError' = e
    /\ promise' = "rejected"
    /\ reason' = "Canvas generation failed"
    /\ settleCalls' = Append(settleCalls, "reject")
    /\ microtasks' = << "callerReaction", "finally" >>
    /\ epc' = "finally"
    /\ UNCHANGED <<overlay, canvas, scaledPageHeight, page, pageAdded, pdfOps,
                   observed>>
    /\ UNCHANGED <<skipped, pagesFolded, bodyCalls, idleTurns, breakVars,
                   blankVars, restVars>>

\* toCanvas rejects with e: the then link passes it on and the catch
\* callback calls reject(error), which queues the caller's reaction; the
\* return of the callback queues the finally callback behind it
RasterReject ==
    /\ epc = "rasterizing"
    /\ raster' = "rejected"
    /\ \E e \in RasterErrors : rasterError' = e /\ reason' = e
    /\ promise' = "rejected"
    /\ settleCalls' = Append(settleCalls, "reject")
    /\ microtasks' = << "callerReaction", "finally" >>
    /\ epc' = "finally"
    /\ UNCHANGED <<overlay, canvas, scaledPageHeight, page, pageAdded, pdfOps,
                   observed>>
    /\ UNCHANGED <<skipped, pagesFolded, bodyCalls, idleTurns, breakVars,
                   blankVars, restVars>>

InLoop ==
    /\ epc = "slicing"
    /\ PageInRange(page, Len(canvas), scaledPageHeight)

\* a missing context is treated as a failure of the export
SliceNoContext_Aborts ==
    /\ InLoop
    /\ skipped' = skipped \cup {page}
    /\ promise' = "rejected"
    /\ reason' = "No 2D context"
    /\ settleCalls' = Append(settleCalls, "reject")
    /\ microtasks' = << "callerReaction", "catchSkipped" >>
    /\ epc' = "finally"
    /\ UNCHANGED <<overlay, raster, canvas, scaledPageHeight, page, pageAdded,
                   pdfOps, rasterError, observed, pagesFolded>>
    /\ UNCHANGED <<bodyCalls, idleTurns, breakVars, blankVars,
                   restVars>>

\* if (!pageCtx) continue.  `page` is counted up to MaxRows; of the
\* iterations beyond it (numPages = Infinity) only the parity is kept
SliceNoContext ==
    /\ InLoop
    /\ IF page < MaxRows
       THEN /\ page' = page + 1
            /\ skipped' = skipped \cup {page}
            /\ UNCHANGED pagesFolded
       ELSE /\ pagesFolded' = 1 - pagesFolded
            /\ UNCHANGED <<page, skipped>>
    /\ UNCHANGED <<epc, overlay, raster, canvas, scaledPageHeight, pageAdded,
                   pdfOps, promise, reason, rasterError, settleCalls,
                   microtasks, observed>>
    /\ UNCHANGED <<bodyCalls, idleTurns, breakVars, blankVars,
                   restVars>>

\* one iteration with a context: fill, draw, blank test, addPage/addImage
SliceDrawn ==
    /\ InLoop
    /\ page < MaxRows
    /\ LET blank == SliceIsBlank(canvas, page, scaledPageHeight)
       IN /\ pdfOps' = IF blank THEN pdfOps
                       ELSE pdfOps \o AcceptOps(pageAdded, page)
          /\ pageAdded' = (pageAdded \/ ~blank)
    /\ page' = page + 1
    /\ UNCHANGED <<epc, overlay, raster, canvas, scaledPageHeight, promise,
                   reason, rasterError, settleCalls, microtasks, observed>>
    /\ UNCHANGED <<skipped, pagesFolded, bodyCalls, idleTurns, breakVars,
                   blankVars, restVars>>

\* toDataURL or addImage throws inside the loop: catch (pdfError) rejects
SliceThrows ==
    /\ InLoop
    /\ pdfOps' = pdfOps \o (IF pageAdded THEN << <<"addPage", page>> >> ELSE << >>)
    /\ promise' = "rejected"
    /\ reason' = "assemblyError"
    /\ settleCalls' = Append(settleCalls, "reject")
    /\ microtasks' = << "callerReaction", "catchSkipped" >>
    /\ epc' = "finally"
    /\ UNCHANGED <<overlay, raster, canvas, scaledPageHeight, page, pageAdded,
                   rasterError, observed>>
    /\ UNCHANGED <<skipped, pagesFolded, bodyCalls, idleTurns, breakVars,
                   blankVars, restVars>>

LoopEnded ==
    /\ epc = "slicing"
    /\ ~PageInRange(page, Len(canvas), scaledPageHeight)

\* the document is saved whether or not a page was added
FinishSave_Unguarded ==
    /\ LoopEnded
    /\ pdfOps' = pdfOps \o << <<"save", page>> >>
    /\ promise' = "fulfilled"
    /\ settleCalls' = Append(settleCalls, "resolve")
    /\ microtasks' = << "callerReaction", "catchSkipped" >>
    /\ epc' = "finally"
    /\ UNCHANGED <<overlay, raster, canvas, scaledPageHeight, page, pageAdded,
                   reason, rasterError, observed>>
    /\ UNCHANGED <<skipped, pagesFolded, bodyCalls, idleTurns, breakVars,
                   blankVars, restVars>>

\* if (pageAdded) { pdf.save(filename); resolve(); }: resolve queues the
\* caller's reaction, the return of the then callback queues the catch link
FinishSave ==
    /\ LoopEnded
    /\ pageAdded
    /\ pdfOps' = pdfOps \o << <<"save", page>> >>
    /\ promise' = "fulfilled"
    /\ settleCalls' = Append(settleCalls, "resolve")
    /\ microtasks' = << "callerReaction", "catchSkipped" >>
    /\ epc' = "finally"
    /\ UNCHANGED <<overlay, raster, canvas, scaledPageHeight, page, pageAdded,
                   reason, rasterError, observed>>
    /\ UNCHANGED <<skipped, pagesFolded, bodyCalls, idleTurns, breakVars,
                   blankVars, restVars>>

\* pdf.save throws: catch (pdfError) rejects
FinishSaveThrows ==
    /\ LoopEnded
    /\ pageAdded
    /\ pdfOps' = pdfOps \o << <<"save", page>> >>
    /\ promise' = "rejected"
    /\ reason' = "saveError"
    /\ settleCalls' = Append(settleCalls, "reject")
    /\ microtasks' = << "callerReaction", "catchSkipped" >>
    /\ epc' = "finally"
    /\ UNCHANGED <<overlay, raster, canvas, scaledPageHeight, page, pageAdded,
                   rasterError, observed>>
    /\ UNCHANGED <<skipped, pagesFolded, bodyCalls, idleTurns, breakVars,
                   blankVars, restVars>>

\* the loop ends with no page added and neither resolve nor reject is called
FinishNoContent_Silent ==
    /\ LoopEnded
    /\ ~pageAdded
    /\ microtasks' = << "catchSkipped" >>
    /\ epc' = "finally"
    /\ UNCHANGED <<overlay, raster, canvas, scaledPageHeight, page, pageAdded,
                   pdfOps, promise, reason, rasterError, settleCalls, observed>>
    /\ UNCHANGED <<skipped, pagesFolded, bodyCalls, idleTurns, breakVars,
                   blankVars, restVars>>

\* else reject(new Error('No content to generate PDF'))
FinishNoContent ==
    /\ LoopEnded
    /\ ~pageAdded
    /\ promise' = "rejected"
    /\ reason' = "No content to generate PDF"
    /\ settleCalls' = Append(settleCalls, "reject")
    /\ microtasks' = << "callerReaction", "catchSkipped" >>
    /\ epc' = "finally"
    /\ UNCHANGED <<overlay, raster, canvas, scaledPageHeight, page, pageAdded,
                   pdfOps, rasterError, observed>>
    /\ UNCHANGED <<skipped, pagesFolded, bodyCalls, idleTurns, breakVars,
                   blankVars, restVars>>

NextJob(job) == microtasks # << >> /\ Head(microtasks) = job

\* the caller's reaction on the returned promise (then / catch / await)
CallerReaction ==
    /\ NextJob("callerReaction")
    /\ observed' = overlay
    /\ microtasks' = Tail(microtasks)
    /\ UNCHANGED <<epc, overlay, raster, canvas, scaledPageHeight, page,
                   pageAdded, pdfOps, promise, reason, rasterError, settleCalls>>
    /\ UNCHANGED <<skipped, pagesFolded, bodyCalls, idleTurns, breakVars,
                   blankVars, restVars>>

\* .catch(...) on a then callback that returned: nothing to catch, the
\* fulfilment is passed on and the finally callback is queued
CatchSkipped ==
    /\ NextJob("catchSkipped")
    /\ microtasks' = Append(Tail(microtasks), "finally")
    /\ UNCHANGED <<epc, overlay, raster, canvas, scaledPageHeight, page,
                   pageAdded, pdfOps, promise, reason, rasterError, settleCalls,
                   observed>>
    /\ UNCHANGED <<skipped, pagesFolded, bodyCalls, idleTurns, breakVars,
                   blankVars, restVars>>

\* the finally callback runs and leaves the overlay where it is
Finally_KeepsOverlay ==
    /\ epc = "finally"
    /\ NextJob("finally")
    /\ microtasks' = Tail(microtasks)
    /\ epc' = "done"
    /\ UNCHANGED <<overlay, raster, canvas, scaledPageHeight, page, pageAdded,
                   pdfOps, promise, reason, rasterError, settleCalls, observed>>
    /\ UNCHANGED <<skipped, pagesFolded, bodyCalls, idleTurns, breakVars,
                   blankVars, restVars>>

\* .finally: if (overlay?.parentNode) overlay.parentNode.removeChild(overlay)
Finally ==
    /\ epc = "finally"
    /\ NextJob("finally")
    /\ overlay' = IF overlay = "attached" THEN "removed" ELSE overlay
    /\ bodyCalls' = IF overlay = "attached"
                    THEN Append(bodyCalls, "removeChild") ELSE bodyCalls
    /\ microtasks' = Tail(microtasks)
    /\ epc' = "done"
    /\ UNCHANGED <<raster, canvas, scaledPageHeight, page, pageAdded, pdfOps,
                   promise, reason, rasterError, settleCalls, observed>>
    /\ UNCHANGED <<skipped, pagesFolded, idleTurns, breakVars, blankVars,
                   restVars>>

NextExport ==
    \/ StartExport \/ StyleExport \/ StageExport \/ BreakExport \/ Rasterize
    \/ SyncThrow \/ RasterFulfil \/ RasterReject
    \/ SliceNoContext \/ SliceDrawn \/ SliceThrows
    \/ FinishSave \/ FinishSaveThrows \/ FinishNoContent
    \/ CallerReaction \/ CatchSkipped \/ Finally

SpecExport == InitExport /\ [][NextExport]_vars

\* the event loop runs other tasks while the toCanvas promise is pending:
\* nothing of the export runs, no timer of the export exists
EventLoopTurn ==
    /\ epc = "rasterizing"
    /\ idleTurns' = 1 - idleTurns
    /\ UNCHANGED <<epc, overlay, raster, canvas, scaledPageHeight, page,
                   pageAdded, pdfOps, promise, reason, rasterError, settleCalls,
                   microtasks, observed, skipped, pagesFolded, bodyCalls>>
    /\ UNCHANGED <<breakVars, blankVars, restVars>>

\* the steps made by the code of customDomToPdf and the jobs it queued;
\* the settlement of the toCanvas promise is the collaborator's
OwnStep ==
    \/ StartExport \/ StyleExport \/ StageExport \/ BreakExport \/ Rasterize
    \/ SyncThrow
    \/ SliceNoContext \/ SliceDrawn \/ SliceThrows
    \/ FinishSave \/ FinishSaveThrows \/ FinishNoContent
    \/ CallerReaction \/ CatchSkipped \/ Finally

NextExportWait == NextExport \/ EventLoopTurn

\* an export whose rasterization may or may not settle: the code and the
\* queued jobs run and the event loop keeps turning, nothing makes the
\* collaborator settle
SpecExportWait ==
    /\ InitExport /\ [][NextExportWait]_vars
    /\ WF_vars(OwnStep) /\ WF_vars(EventLoopTurn)

\* the event loop runs every queued callback
FairSpecExport == SpecExport /\ WF_vars(NextExport)

(***************************************************************************)
(* Properties of customDomToPdf.                                           *)
(***************************************************************************)
RECURSIVE CountOps(_, _, _)
CountOps(ops, n, name) ==
    IF n = 0 THEN 0
    ELSE CountOps(ops, n - 1, name) + (IF ops[n][1] = name THEN 1 ELSE 0)

\* slices accepted so far: one addImage each
Accepted == CountOps(pdfOps, Len(pdfOps), "addImage")
SaveCalled == CountOps(pdfOps, Len(pdfOps), "save") > 0

NO_CONTENT == "No content to generate PDF"

PureWhite(cv) == \A k \in 1..Len(cv) : OpaqueWhite(cv[k])

\* no statement of the then callback threw
NoThrow == reason \notin {"assemblyError", "saveError"}

\* C9: a pure white rasterized bitmap ends in the no-content rejection,
\* with no image added and save never called.
C9_WhiteRejected ==
    (epc = "done" /\ raster = "fulfilled" /\ PureWhite(canvas) /\ NoThrow) =>
        /\ promise = "rejected"
        /\ reason = NO_CONTENT
        /\ Accepted = 0
        /\ ~SaveCalled

\* C10 as stated: save is called exactly when a slice was accepted, and an
\* export whose loop ended with no slice accepted rejects with no content.
C10_Original ==
    (epc = "done" /\ raster = "fulfilled") =>
        /\ SaveCalled <=> Accepted >= 1
        /\ (Accepted = 0 /\ reason # "assemblyError") =>
               (promise = "rejected" /\ reason = NO_CONTENT)

\* C10 amended: save is never called with no slice accepted; when the loop
\* runs to its end without an exception, save is called exactly when a
\* slice was accepted, and with none accepted the export rejects with the
\* no-content error.
C10_Amended ==
    /\ SaveCalled => Accepted >= 1
    /\ (epc \in {"finally", "done"} /\ raster = "fulfilled"
            /\ reason # "assemblyError") =>
           /\ SaveCalled <=> Accepted >= 1
           /\ Accepted = 0 => (promise = "rejected" /\ reason = NO_CONTENT)

\* two slices, neither with a context: rejected, nothing saved
C10_Witness ==
    /\ epc = "done"
    /\ raster = "fulfilled"
    /\ scaledPageHeight > 0
    /\ NumPages(Len(canvas), scaledPageHeight) >= 2
    /\ page = NumPages(Len(canvas), scaledPageHeight)
    /\ Accepted = 0
    /\ ~SaveCalled
    /\ promise = "rejected"
    /\ reason = NO_CONTENT

\* C11: once the rasterization promise has settled, or the synchronous part
\* has thrown, the overlay is eventually not attached to document.body, and
\* an export whose callbacks have all run has no overlay attached.
C11_OverlayDetached ==
    /\ [](epc = "done" => overlay # "attached")
    /\ (raster # "pending" \/ promise # "pending") ~> (overlay # "attached")

\* pdf.save threw after a slice was accepted; the overlay is gone
C11_Witness ==
    /\ epc = "done"
    /\ reason = "saveError"
    /\ Accepted >= 1
    /\ microtasks = << >>
    /\ overlay = "removed"

\* C12: when the caller's reaction on the returned promise runs, the
\* overlay is no longer attached.
C12_CleanupBeforeReaction == observed # "attached"

\* pdf.save(filename) was the last call on the document and it returned
SaveReturned ==
    /\ pdfOps # << >>
    /\ pdfOps[Len(pdfOps)][1] = "save"
    /\ reason # "saveError"

C14_RasterRejection ==
    raster = "rejected" =>
        /\ promise = "rejected"
        /\ reason = rasterError
        /\ rasterError \in RasterErrors
        /\ pdfOps = << >>

C14_Witness ==
    /\ epc = "done"
    /\ raster = "rejected"
    /\ rasterError = "NetworkError"
    /\ reason = "NetworkError"
    /\ promise = "rejected"
    /\ observed # "unobserved"

\* the slice index an addImage or addPage call was made for
SliceOf(op) == op[2]

\* the document page the call at position k draws on: jsPDF starts with one
\* page and addPage moves to a new last page
DocPageAt(k) == 1 + CountOps(pdfOps, k, "addPage")

ImageAdded(p) == \E k \in 1..Len(pdfOps) : pdfOps[k] = << "addImage", p >>

\* C28: a slice whose 2D context could not be obtained gets no addPage and
\* no addImage and does not set pageAdded; the loop goes on, so every other
\* slice that is not blank is added, and an export whose loop ended without
\* an exception is rejected only if no slice was accepted.
C28_SkipOnlyThatSlice ==
    /\ \A k \in 1..Len(pdfOps) :
          pdfOps[k][1] \in {"addPage", "addImage"} => SliceOf(pdfOps[k]) \notin skipped
    /\ reason # "assemblyError" =>
          /\ \A p \in 0..(page - 1) :
                ImageAdded(p) <=>
                    (p \notin skipped /\ ~SliceIsBlank(canvas, p, scaledPageHeight))
          /\ pageAdded <=> \E p \in 0..(page - 1) : ImageAdded(p)
    /\ (epc \in {"finally", "done"} /\ raster = "fulfilled" /\ NoThrow) =>
          /\ ~PageInRange(page, Len(canvas), scaledPageHeight)
          /\ promise = "rejected" <=> Accepted = 0

\* slice 0 is not blank and had no context; slice 1 was accepted and the
\* document saved
C28_Witness ==
    /\ epc = "done"
    /\ promise = "fulfilled"
    /\ skipped = {0}
    /\ ~SliceIsBlank(canvas, 0, scaledPageHeight)
    /\ ImageAdded(1)
    /\ ~ImageAdded(0)
    /\ SaveCalled

\* the heights of the slices 0 .. n-1 added up
RECURSIVE SumRenderHeights(_, _, _)
SumRenderHeights(n, fullHeight, sph) ==
    IF n = 0 THEN 0
    ELSE SumRenderHeights(n - 1, fullHeight, sph)
            + RenderHeight(n - 1, fullHeight, sph)

\* C29: for fullHeight > 0 and scaledPageHeight > 0 the slices partition
\* the rows [0, fullHeight): there are ceil(fullHeight / scaledPageHeight)
\* of them, slice p starts at p * scaledPageHeight and ends where slice
\* p + 1 starts, every height is in (0, scaledPageHeight], and the heights
\* add up to fullHeight; the loop makes one iteration per slice.
C29_SlicesPartition ==
    (raster = "fulfilled" /\ Len(canvas) > 0 /\ scaledPageHeight > 0) =>
        LET fullHeight == Len(canvas)
            sph == scaledPageHeight
            n == NumPages(fullHeight, sph)
        IN /\ (n - 1) * sph < fullHeight /\ fullHeight <= n * sph
           /\ \A p \in 0..(n - 1) :
                 /\ SliceOffset(p, sph) = p * sph
                 /\ 0 < RenderHeight(p, fullHeight, sph)
                 /\ RenderHeight(p, fullHeight, sph) <= sph
                 /\ SliceOffset(p, sph) + RenderHeight(p, fullHeight, sph)
                       = (IF p = n - 1 THEN fullHeight ELSE SliceOffset(p + 1, sph))
                 /\ Len(PageCanvas(canvas, p, sph)) = RenderHeight(p, fullHeight, sph)
           /\ SumRenderHeights(n, fullHeight, sph) = fullHeight
           /\ page <= n
           /\ (epc \in {"finally", "done"} /\ NoThrow) => page = n

\* three rows cut into a slice of two rows and a last slice of one row
C29_Witness ==
    /\ epc = "done"
    /\ NoThrow
    /\ Len(canvas) = 3
    /\ scaledPageHeight = 2
    /\ page = 2
    /\ RenderHeight(0, 3, 2) = 2
    /\ RenderHeight(1, 3, 2) = 1

\* C30: the slicing loop of customDomToPdf terminates for every bitmap
\* height and every page height, a page height of 0 included.
C30_LoopTerminates == (epc = "slicing") ~> (epc # "slicing")

\* the steps an export can take from one position to the next
ExportOrder ==
    { <<"idle", "cloned">>, <<"cloned", "styled">>, <<"styled", "staged">>,
      <<"staged", "broken">>, <<"broken", "rasterizing">>,
      <<"rasterizing", "slicing">>, <<"rasterizing", "finally">>,
      <<"slicing", "finally">>, <<"finally", "done">> }
        \cup { <<st, "done">> : st \in SyncSteps }

\* C32 as stated: the staging container is attached to document.body
\* before the element is cloned and styled, and the document is assembled
\* after the splitting is over.
C32_Original ==
    /\ epc \in {"cloned", "styled"} => overlay = "attached"
    /\ Accepted > 0 => ~InLoop

\* C32 amended: an export clones, styles, attaches the staging container,
\* inserts the breaks, rasterizes, then splits and assembles slice by slice
\* in one loop, and saves, in this order and skipping nothing, failing from
\* any position; the page height is measured and addPageBreaks runs while
\* the staging container is attached, rasterization is invoked only after
\* addPageBreaks returned, save is the last call on the document, and a
\* settled export makes no call on the document and stays settled.
C32_Amended ==
    /\ [](epc \in {"idle", "cloned", "styled"} => overlay = "none")
    /\ [](epc \in {"staged", "broken", "rasterizing", "slicing"}
              => overlay = "attached")
    /\ [](raster # "pending" => epc \in {"slicing", "finally", "done"})
    /\ [](\A k \in 1..Len(pdfOps) :
              pdfOps[k][1] = "save" => k = Len(pdfOps))
    /\ [][epc' # epc => << epc, epc' >> \in ExportOrder]_vars
    /\ [][pdfOps' # pdfOps => (epc = "slicing" /\ promise = "pending")]_vars
    /\ [][promise # "pending" => promise' = promise]_vars

\* two slices were added one after the other and the document was saved
C32_Witness ==
    /\ epc = "done"
    /\ promise = "fulfilled"
    /\ overlay = "removed"
    /\ pdfOps = << <<"addImage", 0>>, <<"addPage", 1>>, <<"addImage", 1>>,
                   <<"save", 2>> >>

\* the overlay is appended at most once and removed at most once, after it
\* was appended; an export whose callbacks have all run has removed the
\* overlay it appended
ReleasedAtMostOnce ==
    /\ bodyCalls \in { << >>, << "appendChild" >>,
                       << "appendChild", "removeChild" >> }
    /\ epc = "done" => bodyCalls # << "appendChild" >>

\* C33: the overlay is appended to document.body at most once; it is
\* removed exactly once in every execution in which it was appended and
\* rasterization settled, never when it was not appended, and never by both
\* the outer catch and the finally callback.
C33_ReleasedExactlyOnce ==
    /\ []ReleasedAtMostOnce
    /\ (raster # "pending") ~> (bodyCalls = << "appendChild", "removeChild" >>)

\* C34: the overlay is eventually removed from the document also when the
\* rasterization never settles: an export does not wait for toCanvas with
\* its overlay attached forever.
C34_WaitIsBounded ==
    (epc = "rasterizing" /\ overlay = "attached") ~> (epc # "rasterizing")

(***************************************************************************)
(* Overlapping calls of customDomToPdf.  Each call runs its synchronous    *)
(* part in one piece and then waits for its own toCanvas promise; the      *)
(* callbacks of different calls interleave.                                *)
(***************************************************************************)
MaxCalls == 3      \* calls of customDomToPdf made by the page

CallIds == 1..MaxCalls

InitCalls ==
    /\ calls = [k \in CallIds |->
                   [at |-> "idle", promise |-> "pending", beside |-> {},
                    touched |-> {}, removed |-> {}]]
    /\ attached = {}
    /\ IdleBreaks
    /\ IdleBlank
    /\ IdleExport
    /\ IdleClone
    /\ IdleHeight
    /\ IdleSelect
    /\ IdleHistory

\* customDomToPdf is entered: nothing is tested before the overlay is built
\* and appended, whatever the other calls are doing
InvokeExport ==
    \E k \in CallIds :
        /\ calls[k].at = "idle"
        /\ calls' = [calls EXCEPT ![k].at = "rasterizing",
                                  ![k].beside = attached,
                                  ![k].touched = {k}]
        /\ attached' = attached \cup {k}
        /\ UNCHANGED <<breakVars, blankVars, exportVars, cloneVars, heightVars,
                   selectVars, historyVars>>

\* the synchronous part throws: the outer catch removes the overlay of this
\* call if it was appended, and rejects
InvokeThrows ==
    \E k \in CallIds :
        /\ calls[k].at = "idle"
        /\ calls' = [calls EXCEPT ![k].at = "done", ![k].promise = "rejected"]
        /\ UNCHANGED attached
        /\ UNCHANGED <<breakVars, blankVars, exportVars, cloneVars, heightVars,
                   selectVars, historyVars>>

\* the toCanvas promise of call k settles and its then or catch callback
\* settles the promise of the call
RasterSettles ==
    \E k \in CallIds, outcome \in {"fulfilled", "rejected"} :
        /\ calls[k].at = "rasterizing"
        /\ calls' = [calls EXCEPT ![k].at = "finally", ![k].promise = outcome]
        /\ UNCHANGED attached
        /\ UNCHANGED <<breakVars, blankVars, exportVars, cloneVars, heightVars,
                   selectVars, historyVars>>

\* the overlay is looked up in the document: the first one found is removed
CleanupOverlay_FirstInBody ==
    \E k \in CallIds :
        /\ calls[k].at = "finally"
        /\ LET first == CHOOSE a \in attached : \A b \in attached : a <= b
           IN /\ calls' = [calls EXCEPT ![k].at = "done",
                                        ![k].removed = {first}]
              /\ attached' = attached \ {first}
        /\ UNCHANGED <<breakVars, blankVars, exportVars, cloneVars, heightVars,
                   selectVars, historyVars>>

\* the finally callback of call k removes the overlay its closure holds
CleanupOverlay ==
    \E k \in CallIds :
        /\ calls[k].at = "finally"
        /\ calls' = [calls EXCEPT ![k].at = "done", ![k].removed = {k}]
        /\ attached' = attached \ {k}
        /\ UNCHANGED <<breakVars, blankVars, exportVars, cloneVars, heightVars,
                   selectVars, historyVars>>

NextCalls == InvokeExport \/ InvokeThrows \/ RasterSettles \/ CleanupOverlay

SpecCalls == InitCalls /\ [][NextCalls]_vars

\* the calls that have started and whose cleanup has not run
InFlight == { k \in CallIds : calls[k].at \in {"rasterizing", "finally"} }

\* C15: a call made while another export awaits rasterization is queued or
\* rejected: never two exports in flight, never two overlays attached.
C15_OneExportAtATime ==
    /\ Cardinality(InFlight) <= 1
    /\ Cardinality(attached) <= 1

\* C35: when exports overlap, each removes only the overlay it created,
\* selects and slices only under its own wrapper, and a call whose promise
\* has settled and whose callbacks have run has no overlay in the document.
C35_OwnOverlayOnly ==
    \A k \in CallIds :
        /\ calls[k].removed \subseteq {k}
        /\ calls[k].touched \subseteq {k}
        /\ calls[k].at = "done" => k \notin attached
        /\ calls[k].at \in {"rasterizing", "finally"} => k \in attached

\* call 2 was entered while the overlay of call 1 was in the document and
\* its cleanup ran first; both are through and no overlay is left
C35_Witness ==
    /\ calls[2].beside = {1}
    /\ calls[1].beside = {}
    /\ calls[1].at = "done" /\ calls[2].at = "done"
    /\ calls[1].removed = {1} /\ calls[2].removed = {2}
    /\ calls[1].promise = "fulfilled" /\ calls[2].promise = "rejected"
    /\ attached = {}

(***************************************************************************)
(* cloneNode and the nodes an export writes to.  The document is a heap of *)
(* nodes id -> [tag, kids, live, dirty, style]: kids are the child ids in  *)
(* order, live is the state a structural copy does not carry (canvas       *)
(* bitmap, select index) or carries by the cloning steps (textarea value   *)
(* and its dirty flag: set once the value was typed or assigned), style is *)
(* the inline style / class written by the export.                        *)
(* Textarea values: 0 is the empty text, 1 a text of plain letters, 2 a    *)
(* text holding a character reference ("a &lt; b"), 3 that text with the   *)
(* reference replaced by its character ("a < b").                          *)
(***************************************************************************)
MaxNodes == 3      \* nodes of the subtree of elementToPrint
MaxBreaks == 1     \* spacer pairs addPageBreaks inserts in one export

BodyId == 1            \* document.body
ElementToPrint == 2    \* the live element, a child of document.body

\* tag, live state and dirty flag of a node of the live subtree
NodeKinds ==
    { <<"div", 0, FALSE>>, <<"script", 0, FALSE>>,
      <<"canvas", 0, FALSE>>, <<"canvas", 1, FALSE>>,
      <<"select", 0, FALSE>>, <<"select", 1, FALSE>>,
      <<"textarea", 0, FALSE>>, <<"textarea", 1, TRUE>>,
      <<"textarea", 2, FALSE>>, <<"textarea", 2, TRUE>> }

RECURSIVE SortedSeq(_)
SortedSeq(S) ==
    IF S = {} THEN << >>
    ELSE LET m == CHOOSE x \in S : \A y \in S : x <= y
         IN << m >> \o SortedSeq(S \ {m})

\* the live document: body, elementToPrint (a div) and n - 1 nodes below it
MakeDom(n, par, kind) ==
    [x \in 1..(n + 1) |->
        IF x = BodyId
        THEN [tag |-> "body", kids |-> << ElementToPrint >>, live |-> 0,
              dirty |-> FALSE, style |-> ""]
        ELSE [tag |-> IF x = ElementToPrint THEN "div" ELSE kind[x][1],
              kids |-> SortedSeq({y \in 3..(n + 1) : par[y] = x}),
              live |-> IF x = ElementToPrint THEN 0 ELSE kind[x][2],
              dirty |-> IF x = ElementToPrint THEN FALSE ELSE kind[x][3],
              style |-> ""]]

LiveDocuments ==
    UNION { { MakeDom(n, par, kind) :
                par \in { f \in [3..(n + 1) -> 2..(n + 1)] :
                            \A y \in 3..(n + 1) : f[y] < y },
                kind \in [3..(n + 1) -> NodeKinds] } :
            n \in 1..MaxNodes }

\* the nodes below and including those of `ids`, in document order
RECURSIVE PreorderAll(_, _)
PreorderAll(h, ids) ==
    IF ids = << >> THEN << >>
    ELSE << Head(ids) >> \o PreorderAll(h, h[Head(ids)].kids \o Tail(ids))

Descendants(h, root) == Tail(PreorderAll(h, << root >>))

InSeq(q, x) == \E k \in 1..Len(q) : q[k] = x

\* root.querySelectorAll(tag)
QuerySelectorAll(h, root, tag) ==
    SelectSeq(Descendants(h, root), LAMBDA x : h[x].tag = tag)

\* node.parentNode (0: none)
ParentOf(h, x) ==
    IF \E q \in DOMAIN h : InSeq(h[q].kids, x)
    THEN CHOOSE q \in DOMAIN h : InSeq(h[q].kids, x)
    ELSE 0

\* the node handed on as the clone is the live node itself
ClonedNode_SameNode(h, root) == root

\* the id of the copy of `root` made by node.cloneNode(true): the copies of
\* the subtree root..Len(h) are appended to the heap in the same order
ClonedNode(h, root) == Len(h) + 1

\* node.cloneNode(true): a copy of every node of the subtree; a canvas copy
\* has an empty bitmap, a select copy its default index, a textarea copy
\* the value and the dirty flag of its original
CloneHeap(h, root) ==
    LET off == Len(h) + 1 - root
    IN h \o [k \in 1..(Len(h) + 1 - root) |->
                LET o == h[root + k - 1]
                IN [tag |-> o.tag,
                    kids |-> [j \in 1..Len(o.kids) |-> o.kids[j] + off],
                    live |-> IF o.tag = "textarea" THEN o.live ELSE 0,
                    dirty |-> o.dirty,
                    style |-> o.style]]

\* the loops over canvases and selects: the i-th element of the copy takes
\* the live state of the i-th element of the original
CopyLive(h, c, root, tag) ==
    LET cs == QuerySelectorAll(h, c, tag)
        os == QuerySelectorAll(h, root, tag)
    IN [x \in DOMAIN h |->
           IF InSeq(cs, x)
           THEN [h[x] EXCEPT !.live =
                    h[os[CHOOSE k \in 1..Len(cs) : cs[k] = x]].live]
           ELSE h[x]]

\* the HTML fragment parser reading a text as the content of a textarea:
\* character references are replaced by their characters
ParseAsTextareaContent(v) == IF v = 2 THEN 3 ELSE v

\* textareas[i].innerHTML = originalTextareas[i].value: the value is parsed
\* as markup into the child text of the copy, which is the copy's value
\* unless its dirty flag is set
InjectTextareaValues(h, c, root) ==
    LET cs == QuerySelectorAll(h, c, "textarea")
        os == QuerySelectorAll(h, root, "textarea")
    IN [x \in DOMAIN h |->
           IF InSeq(cs, x) /\ ~h[x].dirty
           THEN [h[x] EXCEPT !.live =
                    ParseAsTextareaContent(
                        h[os[CHOOSE k \in 1..Len(cs) : cs[k] = x]].live)]
           ELSE h[x]]

\* only the scripts that are children of the clone itself are removed
RemoveScripts_ChildrenOnly(h, c) ==
    LET scripts == QuerySelectorAll(h, c, "script")
    IN [h EXCEPT ![c].kids = SelectSeq(h[c].kids, LAMBDA y : ~InSeq(scripts, y))]

\* element.querySelectorAll('script').forEach(script => script.remove())
RemoveScripts(h, c) ==
    LET scripts == QuerySelectorAll(h, c, "script")
    IN [x \in DOMAIN h |->
           [h[x] EXCEPT !.kids = SelectSeq(h[x].kids, LAMBDA y : ~InSeq(scripts, y))]]

\* cloneNode(node): the heap after the call
CloneNode(h, root) ==
    LET c == Len(h) + 1
        h1 == CloneHeap(h, root)
        h2 == CopyLive(h1, c, root, "canvas")
        h3 == InjectTextareaValues(h2, c, root)
        h4 == CopyLive(h3, c, root, "select")
    IN RemoveScripts(h4, c)

\* the elements cloneNode has a step for
FidelityTags == {"canvas", "textarea", "select"}

\* the copies that precede the copy of the original element f among the
\* elements of its tag: the iterations made before the one for f
StepsBefore(h, c, root, f) ==
    LET cs == QuerySelectorAll(h, c, h[f].tag)
        os == QuerySelectorAll(h, root, h[f].tag)
        at == CHOOSE k \in 1..Len(os) : os[k] = f
    IN { cs[k] : k \in 1..(at - 1) }

\* the heap when only the iterations for the copies in `ran` were made
OnlyFor(hNew, hOld, ran) ==
    [x \in DOMAIN hNew |-> IF x \in ran THEN hNew[x] ELSE hOld[x]]

\* cloneNode(node) when the step for the element f throws.  In the canvas
\* loop the catch logs and the loop goes on; an exception of a textarea or
\* select iteration leaves cloneNode with the later iterations, the later
\* loops and the script removal not made
CloneNodeFailing(h, root, f) ==
    LET c == Len(h) + 1
        h1 == CloneHeap(h, root)
        others == { x \in DOMAIN h1 : x # f + c - root }
        h2 == CopyLive(h1, c, root, "canvas")
        h3 == InjectTextareaValues(h2, c, root)
        h4 == CopyLive(h3, c, root, "select")
    IN CASE h[f].tag = "canvas" ->
              [heap |-> RemoveScripts(
                           CopyLive(InjectTextareaValues(
                                        OnlyFor(h2, h1, others), c, root),
                                    c, root, "select"), c),
               threw |-> FALSE]
         [] h[f].tag = "textarea" ->
              [heap |-> OnlyFor(h3, h2, StepsBefore(h1, c, root, f)),
               threw |-> TRUE]
         [] OTHER ->
              [heap |-> OnlyFor(h4, h3, StepsBefore(h1, c, root, f)),
               threw |-> TRUE]

\* parent.appendChild(child): the child leaves the parent it had
AppendChild(h, parent, child) ==
    [x \in DOMAIN h |->
        LET rest == SelectSeq(h[x].kids, LAMBDA y : y # child)
        IN [h[x] EXCEPT !.kids = IF x = parent THEN Append(rest, child) ELSE rest]]

\* parent.removeChild(child)
RemoveChild(h, parent, child) ==
    [h EXCEPT ![parent].kids = SelectSeq(h[parent].kids, LAMBDA y : y # child)]

\* el.parentNode.insertBefore(a, el); el.parentNode.insertBefore(b, el)
InsertBefore(h, parent, a, b, el) ==
    LET ks == h[parent].kids
        at == CHOOSE k \in 1..Len(ks) : ks[k] = el
    IN [h EXCEPT ![parent].kids =
            SubSeq(ks, 1, at - 1) \o << a, b >> \o SubSeq(ks, at, Len(ks))]

NewDiv(st) ==
    [tag |-> "div", kids |-> << >>, live |-> 0, dirty |-> FALSE, style |-> st]

\* ids of the nodes created by one export, counted from the wrapper
TopSpacerOf(w) == w + 1
BottomSpacerOf(w) == w + 2
OverlayOf(w) == w + 3

NumSpacers(h) == Cardinality({x \in DOMAIN h : h[x].style = FILL_CLASS})

InitClone ==
    /\ dom \in LiveDocuments
    /\ original = dom
    /\ clonedRoot = 0
    /\ wrapperId = 0
    /\ clonePc = "ready"
    /\ failing \in {0} \cup { x \in (ElementToPrint + 1)..Len(dom) :
                                 dom[x].tag \in FidelityTags }
    /\ IdleBreaks
    /\ IdleBlank
    /\ IdleExport
    /\ IdleCalls
    /\ IdleHeight
    /\ IdleSelect
    /\ IdleHistory

\* const clonedElement = cloneNode(elementToPrint)
CloneElement ==
    /\ clonePc = "ready"
    /\ failing = 0
    /\ dom' = CloneNode(dom, ElementToPrint)
    /\ clonedRoot' = ClonedNode(dom, ElementToPrint)
    /\ clonePc' = "cloned"
    /\ UNCHANGED <<failing, original, wrapperId>>
    /\ UNCHANGED <<breakVars, blankVars, exportVars, callVars, heightVars,
                   selectVars, historyVars>>

\* cloneNode(elementToPrint) with a step that fails: the clone is returned,
\* or the exception leaves cloneNode and nothing is returned
CloneElementFailing ==
    /\ clonePc = "ready"
    /\ failing # 0
    /\ LET out == CloneNodeFailing(dom, ElementToPrint, failing)
       IN /\ dom' = out.heap
          /\ clonedRoot' = IF out.threw THEN 0
                           ELSE ClonedNode(dom, ElementToPrint)
          /\ clonePc' = IF out.threw THEN "threw" ELSE "cloned"
    /\ UNCHANGED <<failing, original, wrapperId>>
    /\ UNCHANGED <<breakVars, blankVars, exportVars, callVars, heightVars,
                   selectVars, historyVars>>

\* clonedElementStyled.style.width = ...; height, maxWidth, overflow, ...
StyleClone ==
    /\ clonePc = "cloned"
    /\ dom' = [dom EXCEPT ![clonedRoot].style = "print"]
    /\ clonePc' = "styled"
    /\ UNCHANGED <<failing, original, clonedRoot, wrapperId>>
    /\ UNCHANGED <<breakVars, blankVars, exportVars, callVars, heightVars,
                   selectVars, historyVars>>

\* wrapper = [topSpacer, clonedElement, bottomSpacer]; overlay = [wrapper];
\* document.body.appendChild(overlay)
StageWrapper ==
    /\ clonePc = "styled"
    /\ LET w == Len(dom) + 1
           h1 == dom \o << NewDiv("wrapper"), NewDiv("spacer"), NewDiv("spacer"),
                           NewDiv("overlay") >>
           h2 == AppendChild(h1, w, TopSpacerOf(w))
           h3 == AppendChild(h2, w, clonedRoot)
           h4 == AppendChild(h3, w, BottomSpacerOf(w))
           h5 == AppendChild(h4, OverlayOf(w), w)
       IN /\ dom' = AppendChild(h5, BodyId, OverlayOf(w))
          /\ wrapperId' = w
    /\ clonePc' = "staged"
    /\ UNCHANGED <<failing, original, clonedRoot>>
    /\ UNCHANGED <<breakVars, blankVars, exportVars, callVars, heightVars,
                   selectVars, historyVars>>

\* addPageBreaks(wrapper, pageHeight, 32) pushes one of the elements it
\* selected under the wrapper: two new divs go in front of it
InsertBreak ==
    /\ clonePc = "staged"
    /\ NumSpacers(dom) < MaxBreaks
    /\ \E k \in 1..Len(Descendants(dom, wrapperId)) :
          LET el == Descendants(dom, wrapperId)[k]
              a == Len(dom) + 1
              h1 == dom \o << NewDiv(FILL_CLASS), NewDiv(PAD_CLASS) >>
          IN dom' = InsertBefore(h1, ParentOf(dom, el), a, a + 1, el)
    /\ UNCHANGED <<failing, original, clonedRoot, wrapperId, clonePc>>
    /\ UNCHANGED <<breakVars, blankVars, exportVars, callVars, heightVars,
                   selectVars, historyVars>>

\* finally: if (overlay?.parentNode) overlay.parentNode.removeChild(overlay)
ReleaseOverlay ==
    /\ clonePc = "staged"
    /\ dom' = RemoveChild(dom, ParentOf(dom, OverlayOf(wrapperId)), OverlayOf(wrapperId))
    /\ clonePc' = "released"
    /\ UNCHANGED <<failing, original, clonedRoot, wrapperId>>
    /\ UNCHANGED <<breakVars, blankVars, exportVars, callVars, heightVars,
                   selectVars, historyVars>>

\* a statement of the synchronous part throws before the overlay is in the
\* document: the outer catch finds overlay.parentNode null
AbortExport ==
    /\ clonePc \in {"cloned", "threw", "styled"}
    /\ clonePc' = "released"
    /\ UNCHANGED <<failing, dom, original, clonedRoot, wrapperId>>
    /\ UNCHANGED <<breakVars, blankVars, exportVars, callVars, heightVars,
                   selectVars, historyVars>>

NextClone ==
    \/ CloneElement \/ CloneElementFailing \/ StyleClone \/ StageWrapper \/ InsertBreak
    \/ ReleaseOverlay \/ AbortExport

SpecClone == InitClone /\ [][NextClone]_vars

\* C16: no node of the subtree of elementToPrint is changed by an export:
\* tag, children, live state and style are as they were before the call.
C16_LiveUntouched ==
    \A x \in ElementToPrint..Len(original) : dom[x] = original[x]

\* the clone was styled, a spacer pair went in below the clone and the
\* overlay is out of the document again
C16_Witness ==
    /\ clonePc = "released"
    /\ wrapperId # 0
    /\ dom[clonedRoot].style = "print"
    /\ NumSpacers(dom) = 1
    /\ \E x \in DOMAIN dom :
          /\ dom[x].style = FILL_CLASS
          /\ InSeq(Descendants(dom, clonedRoot), x)
    /\ ~InSeq(dom[BodyId].kids, OverlayOf(wrapperId))

\* C20: the subtree cloneNode returned has no script element among its
\* descendants, and the original subtree has the scripts it had.
C20_NoScriptInClone ==
    clonedRoot # 0 =>
        /\ QuerySelectorAll(dom, clonedRoot, "script") = << >>
        /\ QuerySelectorAll(dom, ElementToPrint, "script")
               = QuerySelectorAll(original, ElementToPrint, "script")

\* the original holds a script inside a child of elementToPrint
C20_Witness ==
    /\ clonePc = "cloned"
    /\ \E x \in DOMAIN original :
          /\ original[x].tag = "script"
          /\ ParentOf(original, x) \notin {0, ElementToPrint}
          /\ InSeq(Descendants(dom, ElementToPrint), x)
    /\ QuerySelectorAll(dom, clonedRoot, "script") = << >>

(***************************************************************************)
(* calculatePageHeight.  Points are counted in hundredths (595.28pt is     *)
(* 59528) and container widths in tenths of a pixel, so that the quotient  *)
(* the code floors is a quotient of integers.                              *)
(***************************************************************************)
MaxWidth == 60     \* largest container width, in tenths of a pixel

A4_WIDTH_PT == 59528
A4_HEIGHT_PT == 84189

Widths == 0..MaxWidth

\* margins with 2 * margin < A4 width: none, the default 10pt, 20pt, 297pt
Margins == {0, 1000, 2000, 29700}

PrintableWidth(m) == A4_WIDTH_PT - m * 2
PrintableHeight(m) == A4_HEIGHT_PT - m * 2

\* the page is taken lying on its side
CalculatePageHeight_Transposed(w, m) ==
    (PrintableWidth(m) * w) \div (PrintableHeight(m) * 10)

\* Math.round in the place of Math.floor
CalculatePageHeight_Rounded(w, m) ==
    (PrintableHeight(m) * w * 2 + PrintableWidth(m) * 10)
        \div (PrintableWidth(m) * 20)

\* Math.floor(pageHeightPt * (containerWidth / pageWidthPt))
CalculatePageHeight(w, m) ==
    (PrintableHeight(m) * w) \div (PrintableWidth(m) * 10)

InitHeight ==
    /\ containerWidth \in Widths
    /\ margin \in Margins
    /\ heightPc = "ready"
    /\ heightResult = 0
    /\ slice = << >>
    /\ placement = << >>
    /\ IdleBreaks
    /\ IdleBlank
    /\ IdleExport
    /\ IdleCalls
    /\ IdleClone
    /\ IdleSelect
    /\ IdleHistory

ComputeHeight ==
    /\ heightPc = "ready"
    /\ heightResult' = CalculatePageHeight(containerWidth, margin)
    /\ heightPc' = "returned"
    /\ UNCHANGED <<containerWidth, margin, slice, placement>>
    /\ UNCHANGED <<breakVars, blankVars, exportVars, callVars, cloneVars,
                   selectVars, historyVars>>

\* a width of a whole number of pixels
WholePixels(w) == w % 10 = 0

\* html2canvas.scale || 1
Scales == {1, 2}

\* renderHeight of a slice: in (0, scaledPageHeight], and 0 when
\* scaledPageHeight is 0
RenderHeights(sph) == IF sph = 0 THEN {0} ELSE 1..sph

\* the image is put into the top left corner of the sheet
FitToPage_AtOrigin(w, h, m) ==
    [x |-> 0, y |-> 0, width |-> PrintableWidth(m),
     heightNum |-> PrintableWidth(m) * h * 10, heightDen |-> w]

\* imgAspectRatio = width / height; finalWidth = pdfWidth; finalHeight =
\* pdfWidth / imgAspectRatio (the same in both branches); xOffset = yOffset
\* = margin.  w is in tenths of a pixel and h in pixels; finalHeight is
\* kept as the quotient heightNum / heightDen of hundredths of a point
FitToPage(w, h, m) ==
    [x |-> m, y |-> m, width |-> PrintableWidth(m),
     heightNum |-> PrintableWidth(m) * h * 10, heightDen |-> w]

\* one accepted slice of a bitmap that is containerWidth * scale wide (a
\* whole number of pixels, not 0): pdf.addImage(..., xOffset, yOffset,
\* finalWidth, finalHeight)
PlaceSlice ==
    /\ heightPc = "returned"
    /\ \E sc \in Scales :
          /\ containerWidth > 0
          /\ WholePixels(containerWidth * sc)
          /\ \E h \in RenderHeights(heightResult * sc) :
                /\ slice' = [w |-> containerWidth * sc, h |-> h, scale |-> sc]
                /\ placement' = FitToPage(containerWidth * sc, h, margin)
    /\ heightPc' = "placed"
    /\ UNCHANGED <<containerWidth, margin, heightResult>>
    /\ UNCHANGED <<breakVars, blankVars, exportVars, callVars, cloneVars,
                   selectVars, historyVars>>

NextHeight == ComputeHeight \/ PlaceSlice

SpecHeight == InitHeight /\ [][NextHeight]_vars

\* C18: for a fixed margin the page height does not decrease when the
\* container gets wider, and it increases from one whole-pixel width to any
\* larger whole-pixel width.
C18_Monotonic ==
    heightPc = "returned" =>
        \A w2 \in Widths :
            containerWidth < w2 =>
                /\ heightResult <= CalculatePageHeight(w2, margin)
                /\ (WholePixels(containerWidth) /\ WholePixels(w2))
                       => heightResult < CalculatePageHeight(w2, margin)

\* 3px and the default margin: 4, and 4px gives 5
C18_Witness ==
    /\ heightPc = "returned"
    /\ containerWidth = 30
    /\ margin = 1000
    /\ heightResult = 4
    /\ CalculatePageHeight(40, margin) = 5
    /\ CalculatePageHeight(31, margin) = 4

\* C19: the result h is the floor of printableHeight * containerWidth /
\* printableWidth: 0 <= printableHeight * containerWidth - h * printableWidth
\* < printableWidth (both sides times ten, the width being in tenths).
C19_IsFloor ==
    heightPc = "returned" =>
        LET rest == PrintableHeight(margin) * containerWidth
                        - heightResult * PrintableWidth(margin) * 10
        IN /\ 0 <= rest
           /\ rest < PrintableWidth(margin) * 10

\* 0.7px with no margin: 841.89 * 0.7 / 595.28 = 0.99, floored to 0
C19_Witness ==
    /\ heightPc = "returned"
    /\ containerWidth = 7
    /\ margin = 0
    /\ heightResult = 0
    /\ PrintableHeight(margin) * containerWidth > PrintableWidth(margin) * 9

\* C31: an accepted page image is placed at x = margin, y = margin with the
\* printable width and the height printableWidth * sliceHeight / sliceWidth,
\* and its lower edge is not below A4 height - margin, for every slice cut
\* with the page height of calculatePageHeight from a bitmap that is
\* containerWidth * scale wide.
C31_ImageFitsPage ==
    heightPc = "placed" =>
        /\ placement.x = margin
        /\ placement.y = margin
        /\ placement.width = PrintableWidth(margin)
        /\ placement.heightDen > 0
        /\ placement.heightNum * slice.w
               = PrintableWidth(margin) * slice.h * 10 * placement.heightDen
        /\ placement.y * placement.heightDen + placement.heightNum
               <= (A4_HEIGHT_PT - margin) * placement.heightDen

\* a full slice of 8 rows of a 6px wide bitmap with the default margin:
\* 767pt high, 4.8pt short of the printable height
C31_Witness ==
    /\ heightPc = "placed"
    /\ containerWidth = 60 /\ margin = 1000
    /\ slice = [w |-> 60, h |-> 8, scale |-> 1]
    /\ heightResult = 8
    /\ placement.heightNum = 57528 * 80
    /\ placement.heightNum > 76000 * placement.heightDen

\* the copy of the original node x in the heap after cloneNode
CounterpartOf(x) == x + Len(original) + 1 - ElementToPrint

\* C21: every canvas, textarea and select of the clone carries the live
\* state of its own counterpart in the original: the pixels, the current
\* value, the selected index.
C21_StateTransplanted ==
    (clonedRoot # 0 /\ failing = 0) =>
        \A x \in ElementToPrint..Len(original) :
            original[x].tag \in {"canvas", "textarea", "select"} =>
                dom[CounterpartOf(x)].live = original[x].live

\* C36: a failure of the step for one element is absorbed: cloneNode
\* returns the clone, the steps for the other elements are made, the
\* scripts are removed and no exception reaches the caller.
C36_FailureAbsorbed ==
    (failing # 0 /\ clonePc \in {"cloned", "threw"}) =>
        /\ clonePc = "cloned"
        /\ clonedRoot # 0
        /\ QuerySelectorAll(dom, Len(original) + 1, "script") = << >>
        /\ \A x \in (ElementToPrint + 1)..Len(original) :
              (x # failing /\ original[x].tag \in FidelityTags) =>
                  dom[CounterpartOf(x)].live
                     = CloneNode(original, ElementToPrint)[CounterpartOf(x)].live

(***************************************************************************)
(* The selection of layout units in a nested container.  Node 1 is the     *)
(* container passed to addPageBreaks; every node carries one class.        *)
(***************************************************************************)
MaxTreeNodes == 3      \* nodes below the container

GRID_CONTENT == "grid-content"

\* classes of the nodes below the container: a row, a header, a chart
\* holder, a component of the single-pass selector list, a plain column
TreeClasses ==
    { "grid-row", "dashboard-component-header",
      "dashboard-component-chart-holder", "dashboard-component", "column" }

\* node 2 is the child of the container that may be .grid-content
MakeTree(n, par, cls) ==
    [x \in 1..(n + 1) |->
        [cls |-> IF x = 1 THEN "container" ELSE cls[x],
         kids |-> SortedSeq({y \in 2..(n + 1) : par[y] = x})]]

Trees ==
    UNION { { MakeTree(n, par, cls) :
                par \in { f \in [2..(n + 1) -> 1..(n + 1)] :
                            f[2] = 1 /\ \A y \in 2..(n + 1) : f[y] < y },
                cls \in { g \in [2..(n + 1) -> TreeClasses \cup {GRID_CONTENT}] :
                            \A y \in 3..(n + 1) : g[y] # GRID_CONTENT } } :
            n \in 1..MaxTreeNodes }

\* root.querySelectorAll('.c1, .c2, ...'): document order
QueryClasses(t, root, classes) ==
    SelectSeq(Descendants(t, root), LAMBDA x : t[x].cls \in classes)

\* container.querySelector('.grid-content') (0: null)
GridContentOf(t) ==
    LET found == QueryClasses(t, 1, {GRID_CONTENT})
    IN IF found = << >> THEN 0 ELSE found[1]

\* selectors.forEach(selector => gridContent.querySelectorAll(selector)...)
RECURSIVE QueryEach(_, _, _)
QueryEach(t, root, selectors) ==
    IF selectors = << >> THEN << >>
    ELSE QueryClasses(t, root, {Head(selectors)})
         \o QueryEach(t, root, Tail(selectors))

\* of the selector lists, the classes the nodes of the model carry
SingleSelectors == {"dashboard-component"}
BufferedSelectors ==
    << "grid-row", "dashboard-component-header",
       "dashboard-component-chart-holder" >>
StrictSelectors == << "grid-row", "dashboard-component-header" >>

\* parent === gridContent || parent?.parentElement === gridContent
NearGridContent(t, gc, x) ==
    \/ ParentOf(t, x) = gc
    \/ (ParentOf(t, x) # 0 /\ ParentOf(t, ParentOf(t, x)) = gc)

SelectTreeSingle(t) ==
    LET found == QueryClasses(t, 1, SingleSelectors)
    IN IF found = << >> THEN t[1].kids ELSE found

SelectTreeBuffered(t) ==
    LET gc == GridContentOf(t)
        found == QueryEach(t, gc, BufferedSelectors)
    IN IF gc = 0 THEN << >>
       ELSE IF found = << >> THEN t[gc].kids ELSE found

SelectTreeStrict(t) ==
    LET gc == GridContentOf(t)
        found == SelectSeq(QueryEach(t, gc, StrictSelectors),
                           LAMBDA x : NearGridContent(t, gc, x))
    IN IF gc = 0 THEN << >>
       ELSE IF found = << >> THEN t[gc].kids ELSE found

SelectTree(v, t) ==
    CASE v = "single" -> SelectTreeSingle(t)
      [] v = "buffered" -> SelectTreeBuffered(t)
      [] OTHER -> SelectTreeStrict(t)

InitSelect ==
    /\ tree \in Trees
    /\ selVariant \in Variants
    /\ selected = << >>
    /\ selPc = "ready"
    /\ IdleBreaks
    /\ IdleBlank
    /\ IdleExport
    /\ IdleCalls
    /\ IdleClone
    /\ IdleHeight
    /\ IdleHistory

\* the head of addPageBreaks up to the loop: `elements` is built
SelectUnits ==
    /\ selPc = "ready"
    /\ selected' = SelectTree(selVariant, tree)
    /\ selPc' = "selected"
    /\ UNCHANGED <<tree, selVariant>>
    /\ UNCHANGED <<breakVars, blankVars, exportVars, callVars, cloneVars,
                   heightVars, historyVars>>

NextSelect == SelectUnits

SpecSelect == InitSelect /\ [][NextSelect]_vars

IsAncestor(t, a, b) == InSeq(Descendants(t, a), b)

\* C22: no selected element is an ancestor of another selected element.
C22_NoNestedUnits ==
    selPc = "selected" =>
        \A a, b \in 1..Len(selected) :
            ~IsAncestor(tree, selected[a], selected[b])

(***************************************************************************)
(* The filter history of a dashboard, kept in session storage as the JSON  *)
(* text of an array of entries.  An entry is [id, timestamp, customLabel]; *)
(* dataMask and appliedFilters are carried along with the entry and are    *)
(* not read by any of the functions.                                       *)
(***************************************************************************)
MAX_HISTORY_ENTRIES == 20
MaxSaves == 21         \* milliseconds in which dashboard 1 is saved
MaxShort == 1          \* the same, for the other dashboard
MaxEdits == 2          \* delete, label and clear calls in one session
MaxTies == 1           \* timestamps that a second save may read again

Dashboards == {1, 2}

STORAGE_KEY_PREFIX == "superset_filter_history_"

\* `${STORAGE_KEY_PREFIX}${dashboardId}`
getStorageKey(dashboardId) == << STORAGE_KEY_PREFIX, dashboardId >>

StorageKeys == { getStorageKey(d) : d \in Dashboards }

\* sessionStorage.getItem of a key that was never set or was removed
NoItem == [isNull |-> TRUE, text |-> << >>]

\* the customLabel arguments: a string, or undefined from an untyped caller
LabelArgs == {"a", "undefined"}

\* JSON.stringify(entries): a property whose value is undefined is left out
JsonStringify(entries) ==
    [json |->
        [k \in 1..Len(entries) |->
            IF entries[k].customLabel = "undefined"
            THEN [entries[k] EXCEPT !.customLabel = "absent"]
            ELSE entries[k]]]

\* JSON.parse(stored)
JsonParse(stored) == stored.json

\* getFilterHistory(dashboardId) reading the store st
HistoryIn(st, dashboardId) ==
    LET stored == st[getStorageKey(dashboardId)]
    IN IF stored.isNull THEN << >> ELSE JsonParse(stored.text)

getFilterHistory(dashboardId) == HistoryIn(storage, dashboardId)

\* the whole array is written back
Slice_KeepsAll(entries) == entries

\* updatedHistory.slice(0, MAX_HISTORY_ENTRIES)
Slice(entries) ==
    SubSeq(entries, 1, IF Len(entries) < MAX_HISTORY_ENTRIES
                       THEN Len(entries) ELSE MAX_HISTORY_ENTRIES)

\* the new entry goes behind the others
Prepend_AtEnd(newEntry, history) == Append(history, newEntry)

\* [newEntry, ...history]
Prepend(newEntry, history) == << newEntry >> \o history

\* the entries behind the first match go as well
FilterOut_CutsTail(history, entryId) ==
    IF \E k \in 1..Len(history) : history[k].id = entryId
    THEN SubSeq(history, 1,
                (CHOOSE k \in 1..Len(history) :
                    /\ history[k].id = entryId
                    /\ \A j \in 1..(k - 1) : history[j].id # entryId) - 1)
    ELSE history

\* history.filter(entry => entry.id !== entryId)
FilterOut(history, entryId) ==
    SelectSeq(history, LAMBDA entry : entry.id # entryId)

\* history.map(entry => entry.id === entryId ? {...entry, customLabel} : entry)
MapLabel(history, entryId, customLabel) ==
    [k \in 1..Len(history) |->
        IF history[k].id = entryId
        THEN [history[k] EXCEPT !.customLabel = customLabel]
        ELSE history[k]]

\* sessionStorage.setItem(key, text)
SetItem(st, key, text) ==
    [st EXCEPT ![key] = [isNull |-> FALSE, text |-> text]]

\* sessionStorage.removeItem(key)
RemoveItem(st, key) == [st EXCEPT ![key] = NoItem]

NumWith(history, t) ==
    Cardinality({ k \in 1..Len(history) : history[k].timestamp = t })

\* the values Date.now() can have in a save of dashboard d: a later
\* millisecond than the save before, or the same one
ClockReadings(d) ==
    { now[d] + 1 } \cup
    { t \in { now[d] } : /\ t >= 1
                         /\ t <= MaxTies
                         /\ NumWith(getFilterHistory(d), t) \in 1..MaxTies }

\* the ids `${Date.now()}_${random}` can have when the clock reads t.  The
\* first save of a millisecond has the id t; a second one draws the same
\* random suffix, and so the same id, or another one
EntryIds(d, t) == IF t = now[d] THEN { t, t + MAX_HISTORY_ENTRIES + MaxSaves }
                  ELSE { t }

\* the entryId arguments: the id of the newest entry, of the oldest, or
\* one that no entry has
EntryIdArgs(d) ==
    LET history == getFilterHistory(d)
    IN { 0 } \cup (IF history = << >> THEN {}
                   ELSE { history[1].id, history[Len(history)].id })

InitHistory ==
    /\ storage = [key \in StorageKeys |-> NoItem]
    /\ now = [d \in Dashboards |-> 0]
    /\ numEdits = 0
    /\ lastCall = NoCall
    /\ IdleBreaks
    /\ IdleBlank
    /\ IdleExport
    /\ IdleCalls
    /\ IdleClone
    /\ IdleHeight
    /\ IdleSelect

\* the saves the model follows: dashboard 1 has the long session
CanSave(d, t) == t <= (IF d = 1 THEN MaxSaves ELSE MaxShort)

\* saveFilterHistory(dashboardId, dataMask, appliedFilters)
SaveFilterHistory ==
    \E d \in Dashboards :
      \E t \in ClockReadings(d) :
        \E id \in EntryIds(d, t) :
          /\ CanSave(d, t)
          /\ LET history == getFilterHistory(d)
                 newEntry == [id |-> id, timestamp |-> t,
                              customLabel |-> "absent"]
                 updatedHistory == Prepend(newEntry, history)
                 trimmedHistory == Slice(updatedHistory)
             IN storage' = SetItem(storage, getStorageKey(d),
                                   JsonStringify(trimmedHistory))
          /\ now' = [now EXCEPT ![d] = t]
          /\ lastCall' = [op |-> "save", d |-> d, id |-> id]
          /\ UNCHANGED numEdits
          /\ UNCHANGED <<breakVars, blankVars, exportVars, callVars,
                         cloneVars, heightVars, selectVars>>

\* saveFilterHistory when setItem throws (the quota is exceeded): the
\* catch logs and nothing is stored
SaveFilterHistoryThrows ==
    \E d \in Dashboards :
      /\ CanSave(d, now[d] + 1)
      /\ lastCall' = [op |-> "saveThrew", d |-> d, id |-> now[d] + 1]
      /\ UNCHANGED <<storage, now, numEdits>>
      /\ UNCHANGED <<breakVars, blankVars, exportVars, callVars,
                     cloneVars, heightVars, selectVars>>

\* clearFilterHistory(dashboardId)
ClearFilterHistory ==
    \E d \in Dashboards :
      /\ numEdits < MaxEdits
      /\ storage' = RemoveItem(storage, getStorageKey(d))
      /\ numEdits' = numEdits + 1
      /\ lastCall' = [op |-> "clear", d |-> d, id |-> 0]
      /\ UNCHANGED now
      /\ UNCHANGED <<breakVars, blankVars, exportVars, callVars,
                     cloneVars, heightVars, selectVars>>

\* deleteFilterHistoryEntry(dashboardId, entryId)
DeleteFilterHistoryEntry ==
    \E d \in Dashboards :
      \E entryId \in EntryIdArgs(d) :
        /\ numEdits < MaxEdits
        /\ LET history == getFilterHistory(d)
               updatedHistory == FilterOut(history, entryId)
           IN storage' = SetItem(storage, getStorageKey(d),
                                 JsonStringify(updatedHistory))
        /\ numEdits' = numEdits + 1
        /\ lastCall' = [op |-> "delete", d |-> d, id |-> entryId]
        /\ UNCHANGED now
        /\ UNCHANGED <<breakVars, blankVars, exportVars, callVars,
                       cloneVars, heightVars, selectVars>>

\* updateFilterHistoryLabel(dashboardId, entryId, customLabel)
UpdateFilterHistoryLabel ==
    \E d \in Dashboards :
      \E entryId \in EntryIdArgs(d) :
        \E customLabel \in LabelArgs :
          /\ numEdits < MaxEdits
          /\ LET history == getFilterHistory(d)
                 updatedHistory == MapLabel(history, entryId, customLabel)
             IN storage' = SetItem(storage, getStorageKey(d),
                                   JsonStringify(updatedHistory))
          /\ numEdits' = numEdits + 1
          /\ lastCall' = [op |-> "label", d |-> d, id |-> entryId]
          /\ UNCHANGED now
          /\ UNCHANGED <<breakVars, blankVars, exportVars, callVars,
                         cloneVars, heightVars, selectVars>>

\* updateFilterHistoryLabel when setItem throws
UpdateFilterHistoryLabelThrows ==
    \E d \in Dashboards :
      \E entryId \in EntryIdArgs(d) :
        /\ numEdits < MaxEdits
        /\ numEdits' = numEdits + 1
        /\ lastCall' = [op |-> "labelThrew", d |-> d, id |-> entryId]
        /\ UNCHANGED <<storage, now>>
        /\ UNCHANGED <<breakVars, blankVars, exportVars, callVars,
                       cloneVars, heightVars, selectVars>>

NextHistory ==
    \/ SaveFilterHistory \/ SaveFilterHistoryThrows
    \/ ClearFilterHistory \/ DeleteFilterHistoryEntry
    \/ UpdateFilterHistoryLabel \/ UpdateFilterHistoryLabelThrows

SpecHistory == InitHistory /\ [][NextHistory]_vars

\* C37: from empty session storage, whatever calls are made, the stored
\* history of every dashboard holds at most 20 entries.
C37_AtMostTwenty ==
    \A d \in Dashboards : Len(getFilterHistory(d)) <= 20

\* a save was made on a history that held 20 entries
C37_Witness ==
    /\ lastCall.op = "save"
    /\ now[lastCall.d] > MAX_HISTORY_ENTRIES
    /\ Len(getFilterHistory(lastCall.d)) = MAX_HISTORY_ENTRIES

NewestFirst(history) ==
    \A j, k \in 1..Len(history) :
        j < k => history[j].timestamp >= history[k].timestamp

\* what a save that stored its entry did to the history of its dashboard
SaveStored ==
    LET d == lastCall'.d
        old == getFilterHistory(d)
        new == HistoryIn(storage', d)
    IN /\ new # << >>
       /\ new[1].id = lastCall'.id
       /\ new[1].timestamp = now'[d]
       /\ Len(new) = (IF Len(old) < 20 THEN Len(old) + 1 ELSE 20)
       /\ \A k \in 2..Len(new) : new[k] = old[k - 1]

\* C38: a save puts the new entry at index 0 with the entries it found
\* behind it in their order, dropping entries from the tail only, beyond
\* 20; the stored list is ordered newest first.
C38_NewestFirst ==
    /\ [](\A d \in Dashboards : NewestFirst(getFilterHistory(d)))
    /\ [][lastCall'.op = "save" => SaveStored]_vars

\* the 21st save of a dashboard: the entry of the first one is gone
C38_Witness ==
    /\ lastCall.op = "save"
    /\ numEdits = 0
    /\ LET history == getFilterHistory(lastCall.d)
       IN /\ Len(history) = 20
          /\ history[1].timestamp = 21
          /\ history[20].timestamp = 2

\* what a call did to the entries of its dashboard and of the others
CallFrame ==
    LET c == lastCall'
        old == getFilterHistory(c.d)
        new == HistoryIn(storage', c.d)
    IN /\ \A other \in Dashboards \ {c.d} :
             /\ HistoryIn(storage', other) = getFilterHistory(other)
             /\ storage'[getStorageKey(other)] = storage[getStorageKey(other)]
       /\ c.op = "delete" =>
             new = SelectSeq(old, LAMBDA entry : entry.id # c.id)
       /\ c.op \in {"label", "labelThrew"} =>
             /\ Len(new) = Len(old)
             /\ \A k \in 1..Len(old) :
                   /\ new[k].id = old[k].id
                   /\ new[k].timestamp = old[k].timestamp
                   /\ old[k].id # c.id => new[k] = old[k]

\* C39: a delete removes the entries of its dashboard that have the id, a
\* label update changes the customLabel of those entries only; the other
\* entries keep their content and order, and no call changes the history
\* of another dashboard.
C39_OnlyTheNamedEntries == [][CallFrame]_vars

\* an entry was deleted beside a labelled one, another dashboard has entries
C39_Witness ==
    /\ lastCall.op = "delete"
    /\ lastCall.id # 0
    /\ numEdits = 2
    /\ \E k \in 1..Len(getFilterHistory(lastCall.d)) :
          getFilterHistory(lastCall.d)[k].customLabel = "a"
    /\ \E other \in Dashboards \ {lastCall.d} :
          getFilterHistory(other) # << >>

====
